---- MODULE Spec2Model ----
(***************************************************************************)
(* Port registry of sailinit (portmanager.go): the persisted registry      *)
(* file, the project directories and their .env files, and the registry    *)
(* operations.  Every Go function is an operator from the world it reads   *)
(* (registry file, directories, .env files) and its arguments to the file  *)
(* it leaves behind and the values it returns; every action is one call.   *)
(* What a call finds on the disk besides the registry file (which project  *)
(* directories exist, the .env of the project) is an input of the call.    *)
(* The setup flow of main.go is a sequence of steps over the same state:   *)
(* the suggestion, the two prompts, the port probe, the save, the .env,     *)
(* composer install and sail up.                                           *)
(*                                                                         *)
(* Project paths are valid UTF-8 absolute paths, so encoding/json writes   *)
(* and reads the map keys without loss.                                    *)
(***************************************************************************)
EXTENDS Integers, Sequences, FiniteSets, TLC

VARIABLES file, last, maxSaved, flow

vars == <<file, last, maxSaved, flow>>

----------------------------------------------------------------------------
(* Bounds *)

\* the suffixes handed to the registry operations are 0..MaxSfx
MaxSfx == 1

\* setup flows start while the high-water mark is below DefaultSuffix + MaxNew
MaxNew == 2

----------------------------------------------------------------------------
(* Program constants *)

MaxPortSuffix == 47435

AppBase == 8000

\* the starting suffix an empty answer to the first-ever prompt selects
DefaultSuffix == 48

----------------------------------------------------------------------------
(* Inputs of the calls *)

\* absolute project paths
Paths == {"/a", "/b", "/c"}

\* the keys of the registries handed to save directly
StorePaths == {"/a", "/b"}

\* directory arguments as the caller may spell them
DirArgs == Paths \cup {"/a/."}

\* suffixes handed to the registry operations
Suffixes == 0..MaxSfx

\* integers handed to ValidateSuffix and to the port probe
ProbeSuffixes == (-1..MaxSfx) \cup {MaxPortSuffix - 1, MaxPortSuffix, MaxPortSuffix + 1}

\* ports handed to CheckPortAvailable: no port, the ends of the port range,
\* and ports in between
ProbePorts == {0 - 1, 0, 1, 8000, 8001, 65535, 65536}

----------------------------------------------------------------------------
(* Text: a string is a sequence of one-character strings *)

Digits == {"0", "1", "2", "3", "4", "5", "6", "7", "8", "9"}

DigitVal(c) ==
    CASE c = "0" -> 0 [] c = "1" -> 1 [] c = "2" -> 2 [] c = "3" -> 3
      [] c = "4" -> 4 [] c = "5" -> 5 [] c = "6" -> 6 [] c = "7" -> 7
      [] c = "8" -> 8 [] c = "9" -> 9

\* unicode.IsSpace on the characters of the model
IsSpace(c) == c \in {" ", "\t", "\r", "\n"}

RECURSIVE TrimLeft(_)
TrimLeft(s) ==
    IF s # <<>> /\ IsSpace(Head(s)) THEN TrimLeft(Tail(s)) ELSE s

RECURSIVE TrimRight(_)
TrimRight(s) ==
    IF s # <<>> /\ IsSpace(s[Len(s)]) THEN TrimRight(SubSeq(s, 1, Len(s) - 1)) ELSE s

TrimSpace(s) == TrimRight(TrimLeft(s))

HasPrefix(s, prefix) ==
    Len(s) >= Len(prefix) /\ SubSeq(s, 1, Len(prefix)) = prefix

AppPortKey == <<"A", "P", "P", "_", "P", "O", "R", "T", "=">>

\* splitLines: cut at "\n", drop one "\r" before it; a last line without
\* "\n" is kept, an empty rest is not.  The scan from i goes to the next
\* "\n" in one step.
RECURSIVE splitFrom(_, _, _)
splitFrom(s, start, i) ==
    LET breaks == {j \in i..Len(s) : s[j] = "\n"}
    IN  IF breaks = {}
        THEN IF start <= Len(s)
             THEN LET line == SubSeq(s, start, Len(s))
                  IN  IF line[Len(line)] = "\r"
                      THEN <<SubSeq(line, 1, Len(line) - 1)>>
                      ELSE <<line>>
             ELSE <<>>
        ELSE LET n   == CHOOSE j \in breaks : \A k \in breaks : j <= k
                 end == IF n - 1 >= start /\ s[n - 1] = "\r" THEN n - 2 ELSE n - 1
             IN  <<SubSeq(s, start, end)>> \o splitFrom(s, n + 1, n + 1)

splitLines(s) == splitFrom(s, 1, 1)

\* the digits at the front of s
RECURSIVE DigitRun(_)
DigitRun(s) ==
    IF s # <<>> /\ Head(s) \in Digits THEN <<Head(s)>> \o DigitRun(Tail(s)) ELSE <<>>

RECURSIVE DecimalValue(_, _)
DecimalValue(ds, acc) ==
    IF ds = <<>> THEN acc ELSE DecimalValue(Tail(ds), acc * 10 + DigitVal(Head(ds)))

\* fmt.Sscanf(line, "APP_PORT=%d", &p) on a line that starts with the key:
\* %d skips spaces, takes an optional sign and at least one decimal digit,
\* and ignores what follows the number (the numbers in the files of the
\* model have a few digits, far from the overflow of a 64-bit int)
ScanAppPort(line) ==
    LET rest   == TrimLeft(SubSeq(line, Len(AppPortKey) + 1, Len(line)))
        signed == rest # <<>> /\ Head(rest) \in {"+", "-"}
        body   == IF signed THEN Tail(rest) ELSE rest
        ds     == DigitRun(body)
        mag    == DecimalValue(ds, 0)
    IN  IF ds = <<>>
        THEN [ok |-> FALSE, p |-> 0]
        ELSE [ok |-> TRUE, p |-> IF signed /\ Head(rest) = "-" THEN 0 - mag ELSE mag]

\* faulty variant: a value below the base port is recovered too
RECURSIVE extractFromLines_NoBase(_)
extractFromLines_NoBase(lines) ==
    IF lines = <<>>
    THEN [suffix |-> 0, found |-> FALSE]
    ELSE LET line == TrimSpace(Head(lines))
             sc   == IF HasPrefix(line, AppPortKey) THEN ScanAppPort(line)
                                                     ELSE [ok |-> FALSE, p |-> 0]
         IN  IF sc.ok
             THEN [suffix |-> sc.p - AppBase, found |-> TRUE]
             ELSE extractFromLines_NoBase(Tail(lines))

\* fmt.Sscanf(input, "%d", &n)
ScanInt(input) ==
    LET rest   == TrimLeft(input)
        signed == rest # <<>> /\ Head(rest) \in {"+", "-"}
        body   == IF signed THEN Tail(rest) ELSE rest
        ds     == DigitRun(body)
        mag    == DecimalValue(ds, 0)
    IN  IF ds = <<>>
        THEN [ok |-> FALSE, n |-> 0]
        ELSE [ok |-> TRUE, n |-> IF signed /\ Head(rest) = "-" THEN 0 - mag ELSE mag]

\* faulty variant: the first line that starts with APP_PORT= ends the scan
RECURSIVE extractFromLines_FirstKeyDecides(_)
extractFromLines_FirstKeyDecides(lines) ==
    IF lines = <<>>
    THEN [suffix |-> 0, found |-> FALSE]
    ELSE LET line == TrimSpace(Head(lines))
         IN  IF HasPrefix(line, AppPortKey)
             THEN LET sc == ScanAppPort(line)
                  IN  IF sc.ok /\ sc.p >= AppBase
                      THEN [suffix |-> sc.p - AppBase, found |-> TRUE]
                      ELSE [suffix |-> 0, found |-> FALSE]
             ELSE extractFromLines_FirstKeyDecides(Tail(lines))

\* faulty variant: the base port itself is not recovered
RECURSIVE extractFromLines_AboveBase(_)
extractFromLines_AboveBase(lines) ==
    IF lines = <<>>
    THEN [suffix |-> 0, found |-> FALSE]
    ELSE LET line == TrimSpace(Head(lines))
             sc   == IF HasPrefix(line, AppPortKey) THEN ScanAppPort(line)
                                                     ELSE [ok |-> FALSE, p |-> 0]
         IN  IF sc.ok /\ sc.p > AppBase
             THEN [suffix |-> sc.p - AppBase, found |-> TRUE]
             ELSE extractFromLines_AboveBase(Tail(lines))

RECURSIVE extractFromLines(_)
extractFromLines(lines) ==
    IF lines = <<>>
    THEN [suffix |-> 0, found |-> FALSE]
    ELSE LET line == TrimSpace(Head(lines))
             sc   == IF HasPrefix(line, AppPortKey) THEN ScanAppPort(line)
                                                     ELSE [ok |-> FALSE, p |-> 0]
         IN  IF sc.ok /\ sc.p >= AppBase
             THEN [suffix |-> sc.p - AppBase, found |-> TRUE]
             ELSE extractFromLines(Tail(lines))

\* extractSuffixFromEnv on the content of an .env file that can be read
extractSuffixFromEnv(content) == extractFromLines(splitLines(content))

DigitChar(d) ==
    CASE d = 0 -> "0" [] d = 1 -> "1" [] d = 2 -> "2" [] d = 3 -> "3"
      [] d = 4 -> "4" [] d = 5 -> "5" [] d = 6 -> "6" [] d = 7 -> "7"
      [] d = 8 -> "8" [] d = 9 -> "9"

\* fmt.Sprintf("%d", n) for n >= 0
RECURSIVE Itoa(_)
Itoa(n) ==
    IF n < 10 THEN <<DigitChar(n)>> ELSE Itoa(n \div 10) \o <<DigitChar(n % 10)>>

\* the line "APP_PORT=<v>" as the environment writer lays it out
AppPortLine(v) == AppPortKey \o Itoa(v)

----------------------------------------------------------------------------
(* Registry store *)

\* a Go map[string]int: nil, or a finite mapping
EmptyKV == [p \in {} |-> 0]

NilMap == [isNil |-> TRUE, kv |-> EmptyKV]

MakeMap(kv) == [isNil |-> FALSE, kv |-> kv]

\* type PortState
PortState(maxSuffix, projects) == [MaxSuffix |-> maxSuffix, Projects |-> projects]

\* the registry file: absent, unreadable or malformed ("corrupt"), or a JSON
\* object whose members max_suffix and projects may each be missing and
\* whose projects may be null
AbsentFile == [kind |-> "absent", has_max |-> FALSE, max_suffix |-> 0,
               projects |-> "missing", entries |-> EmptyKV]

CorruptFile == [kind |-> "corrupt", has_max |-> FALSE, max_suffix |-> 0,
                projects |-> "missing", entries |-> EmptyKV]

JsonFile(hasMax, maxSuffix, projects, entries) ==
    [kind |-> "json", has_max |-> hasMax, max_suffix |-> maxSuffix,
     projects |-> projects, entries |-> entries]

\* faulty variant: max_suffix is not written
Marshal_DropsMax(s) ==
    JsonFile(FALSE, 0,
             IF s.Projects.isNil THEN "null" ELSE "object",
             IF s.Projects.isNil THEN EmptyKV ELSE s.Projects.kv)

\* json.MarshalIndent of a PortState: both members are always written, a nil
\* map as null
Marshal(s) ==
    JsonFile(TRUE, s.MaxSuffix,
             IF s.Projects.isNil THEN "null" ELSE "object",
             IF s.Projects.isNil THEN EmptyKV ELSE s.Projects.kv)

\* faulty variant: a missing projects member leaves no map, as null does
Unmarshal_MissingIsNull(f, into) ==
    PortState(IF f.has_max THEN f.max_suffix ELSE into.MaxSuffix,
              IF f.projects = "object"
              THEN MakeMap([p \in DOMAIN into.Projects.kv \cup DOMAIN f.entries |->
                               IF p \in DOMAIN f.entries THEN f.entries[p]
                                                         ELSE into.Projects.kv[p]])
              ELSE NilMap)

\* json.Unmarshal into an existing PortState: a missing member leaves the
\* field as it is, null sets the map to nil, an object adds its members to
\* the map (creating it when nil)
Unmarshal(f, into) ==
    PortState(IF f.has_max THEN f.max_suffix ELSE into.MaxSuffix,
              CASE f.projects = "missing" -> into.Projects
                [] f.projects = "null"    -> NilMap
                [] f.projects = "object"  ->
                     MakeMap([p \in DOMAIN into.Projects.kv \cup DOMAIN f.entries |->
                                 IF p \in DOMAIN f.entries THEN f.entries[p]
                                                           ELSE into.Projects.kv[p]]))

\* faulty variant: the path is taken as it is given
Abs_AsGiven(dir) == dir

\* filepath.Abs of an absolute path cleans it
Abs(dir) == IF dir = "/a/." THEN "/a" ELSE dir

\* faulty variant: a file that cannot be read or parsed loads as an empty registry
loadPortState_CorruptAsEmpty(f) ==
    LET state == PortState(0, MakeMap(EmptyKV))
    IN  CASE f.kind = "absent"  -> [state |-> state, existed |-> FALSE, err |-> "nil"]
          [] f.kind = "corrupt" -> [state |-> state, existed |-> TRUE, err |-> "nil"]
          [] f.kind = "json"    -> [state |-> Unmarshal(f, state), existed |-> TRUE, err |-> "nil"]

\* faulty variant: existed is reported TRUE also when there is no file
loadPortState_AlwaysExisted(f) ==
    LET state == PortState(0, MakeMap(EmptyKV))
    IN  CASE f.kind = "absent"  -> [state |-> state, existed |-> TRUE, err |-> "nil"]
          [] f.kind = "corrupt" -> [state |-> PortState(0, NilMap), existed |-> FALSE, err |-> "read"]
          [] f.kind = "json"    -> [state |-> Unmarshal(f, state), existed |-> TRUE, err |-> "nil"]

loadPortState(f) ==
    LET state == PortState(0, MakeMap(EmptyKV))
    IN  CASE f.kind = "absent"  -> [state |-> state, existed |-> FALSE, err |-> "nil"]
          [] f.kind = "corrupt" -> [state |-> PortState(0, NilMap), existed |-> FALSE, err |-> "read"]
          [] f.kind = "json"    -> [state |-> Unmarshal(f, state), existed |-> TRUE, err |-> "nil"]

\* how os.WriteFile ends: the whole content written; refused before the
\* file is touched; or failed after the file was truncated
WriteOutcomes == {"ok", "denied", "partial"}

\* PortState.save over the file f
save(s, f, wr) ==
    CASE wr = "ok"      -> [file |-> Marshal(s), err |-> "nil"]
      [] wr = "denied"  -> [file |-> f, err |-> "write"]
      [] wr = "partial" -> [file |-> CorruptFile, err |-> "write"]

----------------------------------------------------------------------------
(* Port-range validator and OS port probe *)

\* faulty variant: the upper limit is off by one
ValidateSuffix_OffByOne(suffix) ==
    IF suffix < 0 THEN "negative"
    ELSE IF suffix >= MaxPortSuffix THEN "too large"
    ELSE "nil"

ValidateSuffix(suffix) ==
    IF suffix < 0 THEN "negative"
    ELSE IF suffix > MaxPortSuffix THEN "too large"
    ELSE "nil"

\* net.Listen on ":port" succeeds when the port is a TCP port that nobody
\* holds; the listener is closed before returning
\* net.Listen("tcp", ":port") while others hold the ports inUse and the
\* tool itself the ports held: the error, and the ports the tool holds then
netListen(port, inUse, held) ==
    IF port \in 0..65535 /\ port \notin inUse \cup held
    THEN [err |-> "nil", held |-> held \cup {port}]
    ELSE [err |-> "bind", held |-> held]

\* faulty variant: the listener stays open
lnClose_Leaks(port, held) == held

\* ln.Close()
lnClose(port, held) == held \ {port}

\* the ports the tool holds after CheckPortAvailable(port)
heldAfterCheck(port, inUse, held) ==
    LET l == netListen(port, inUse, held)
    IN  IF l.err # "nil" THEN l.held ELSE lnClose(port, l.held)

CheckPortAvailable(port, inUse) == netListen(port, inUse, {}).err = "nil"

\* faulty variant: the Mailpit dashboard base is 18200
SuffixPorts_HighBase(suffix) ==
    << [Name |-> "APP_PORT",                       Port |-> 8000 + suffix],
       [Name |-> "FORWARD_DB_PORT",                Port |-> 3300 + suffix],
       [Name |-> "FORWARD_REDIS_PORT",             Port |-> 6300 + suffix],
       [Name |-> "FORWARD_MEILISEARCH_PORT",       Port |-> 7700 + suffix],
       [Name |-> "FORWARD_MAILPIT_DASHBOARD_PORT", Port |-> 18200 + suffix],
       [Name |-> "FORWARD_MAILPIT_PORT",           Port |-> 1000 + suffix],
       [Name |-> "VITE_PORT",                      Port |-> 5100 + suffix] >>

\* the table of CheckSuffixPortsAvailable
SuffixPorts(suffix) ==
    << [Name |-> "APP_PORT",                       Port |-> 8000 + suffix],
       [Name |-> "FORWARD_DB_PORT",                Port |-> 3300 + suffix],
       [Name |-> "FORWARD_REDIS_PORT",             Port |-> 6300 + suffix],
       [Name |-> "FORWARD_MEILISEARCH_PORT",       Port |-> 7700 + suffix],
       [Name |-> "FORWARD_MAILPIT_DASHBOARD_PORT", Port |-> 18100 + suffix],
       [Name |-> "FORWARD_MAILPIT_PORT",           Port |-> 1000 + suffix],
       [Name |-> "VITE_PORT",                      Port |-> 5100 + suffix] >>

RECURSIVE busyOf(_, _)
busyOf(ports, inUse) ==
    IF ports = <<>> THEN <<>>
    ELSE (IF CheckPortAvailable(Head(ports).Port, inUse) THEN <<>> ELSE <<Head(ports)>>)
         \o busyOf(Tail(ports), inUse)

\* the ports the tool holds after the probes of CheckSuffixPortsAvailable
RECURSIVE heldAfterChecks(_, _, _)
heldAfterChecks(ports, inUse, held) ==
    IF ports = <<>> THEN held
    ELSE heldAfterChecks(Tail(ports), inUse, heldAfterCheck(Head(ports).Port, inUse, held))

\* faulty variant: the probe stops at the first busy port
CheckSuffixPortsAvailable_FirstOnly(suffix, inUse) ==
    LET busy == busyOf(SuffixPorts(suffix), inUse)
    IN  IF busy = <<>> THEN <<>> ELSE <<Head(busy)>>

CheckSuffixPortsAvailable(suffix, inUse) == busyOf(SuffixPorts(suffix), inUse)

----------------------------------------------------------------------------
(* Registry operations.  f is the registry file the call finds, wr the way *)
(* its write ends if it writes; the result holds the file it leaves.       *)

NoEnv == [present |-> FALSE, content |-> <<>>]

EnvFile(content) == [present |-> TRUE, content |-> content]

\* faulty variant: the registry created in memory for an absent file is written out
getSuggestedSuffix_Persists(f, e, projectDir) ==
    LET l      == loadPortState(f)
        absDir == Abs(projectDir)
        x      == extractSuffixFromEnv(e.content)
        f2     == IF l.existed THEN f ELSE Marshal(l.state)
    IN  IF l.err # "nil"
        THEN [file |-> f, suffix |-> 0, existing |-> FALSE, existed |-> FALSE, err |-> l.err]
        ELSE IF absDir \in DOMAIN l.state.Projects.kv
        THEN [file |-> f2, suffix |-> l.state.Projects.kv[absDir], existing |-> TRUE,
              existed |-> l.existed, err |-> "nil"]
        ELSE IF e.present /\ x.found
        THEN [file |-> f2, suffix |-> x.suffix, existing |-> TRUE,
              existed |-> l.existed, err |-> "nil"]
        ELSE [file |-> f2, suffix |-> l.state.MaxSuffix + 1, existing |-> FALSE,
              existed |-> l.existed, err |-> "nil"]

\* faulty variant: a new project is suggested the high-water mark itself
getSuggestedSuffix_SuggestsMax(f, e, projectDir) ==
    LET l      == loadPortState(f)
        absDir == Abs(projectDir)
        x      == extractSuffixFromEnv(e.content)
    IN  IF l.err # "nil"
        THEN [file |-> f, suffix |-> 0, existing |-> FALSE, existed |-> FALSE, err |-> l.err]
        ELSE IF absDir \in DOMAIN l.state.Projects.kv
        THEN [file |-> f, suffix |-> l.state.Projects.kv[absDir], existing |-> TRUE,
              existed |-> l.existed, err |-> "nil"]
        ELSE IF e.present /\ x.found
        THEN [file |-> f, suffix |-> x.suffix, existing |-> TRUE,
              existed |-> l.existed, err |-> "nil"]
        ELSE [file |-> f, suffix |-> l.state.MaxSuffix, existing |-> FALSE,
              existed |-> l.existed, err |-> "nil"]

\* faulty variant: the .env is consulted before the registry
getSuggestedSuffix_EnvFirst(f, e, projectDir) ==
    LET l      == loadPortState(f)
        absDir == Abs(projectDir)
        x      == extractSuffixFromEnv(e.content)
    IN  IF l.err # "nil"
        THEN [file |-> f, suffix |-> 0, existing |-> FALSE, existed |-> FALSE, err |-> l.err]
        ELSE IF e.present /\ x.found
        THEN [file |-> f, suffix |-> x.suffix, existing |-> TRUE,
              existed |-> l.existed, err |-> "nil"]
        ELSE IF absDir \in DOMAIN l.state.Projects.kv
        THEN [file |-> f, suffix |-> l.state.Projects.kv[absDir], existing |-> TRUE,
              existed |-> l.existed, err |-> "nil"]
        ELSE [file |-> f, suffix |-> l.state.MaxSuffix + 1, existing |-> FALSE,
              existed |-> l.existed, err |-> "nil"]

\* e is the .env of projectDir as os.Stat and os.ReadFile find it
getSuggestedSuffix(f, e, projectDir) ==
    LET l      == loadPortState(f)
        absDir == Abs(projectDir)
        x      == extractSuffixFromEnv(e.content)
    IN  IF l.err # "nil"
        THEN [file |-> f, suffix |-> 0, existing |-> FALSE, existed |-> FALSE, err |-> l.err]
        ELSE IF absDir \in DOMAIN l.state.Projects.kv
        THEN [file |-> f, suffix |-> l.state.Projects.kv[absDir], existing |-> TRUE,
              existed |-> l.existed, err |-> "nil"]
        ELSE IF e.present /\ x.found
        THEN [file |-> f, suffix |-> x.suffix, existing |-> TRUE,
              existed |-> l.existed, err |-> "nil"]
        ELSE [file |-> f, suffix |-> l.state.MaxSuffix + 1, existing |-> FALSE,
              existed |-> l.existed, err |-> "nil"]

\* faulty variant: the entry is keyed by projectDir as given, not by its absolute path
saveProjectSuffix_RawKey(f, projectDir, suffix, wr) ==
    LET l      == loadPortState(f)
        kv     == l.state.Projects.kv
        kv2    == [p \in DOMAIN kv \cup {projectDir} |-> IF p = projectDir THEN suffix ELSE kv[p]]
        max2   == IF suffix > l.state.MaxSuffix THEN suffix ELSE l.state.MaxSuffix
    IN  IF l.err # "nil" THEN [file |-> f, err |-> l.err]
        ELSE IF l.state.Projects.isNil THEN [file |-> f, err |-> "panic"]
        ELSE save(PortState(max2, MakeMap(kv2)), f, wr)

\* faulty variant: the high-water mark is set to the suffix whatever it was
saveProjectSuffix_SetsMax(f, projectDir, suffix, wr) ==
    LET l      == loadPortState(f)
        absDir == Abs(projectDir)
        kv     == l.state.Projects.kv
        kv2    == [p \in DOMAIN kv \cup {absDir} |-> IF p = absDir THEN suffix ELSE kv[p]]
    IN  IF l.err # "nil" THEN [file |-> f, err |-> l.err]
        ELSE IF l.state.Projects.isNil THEN [file |-> f, err |-> "panic"]
        ELSE save(PortState(suffix, MakeMap(kv2)), f, wr)

\* an assignment to an entry of a nil map panics
saveProjectSuffix(f, projectDir, suffix, wr) ==
    LET l      == loadPortState(f)
        absDir == Abs(projectDir)
        kv     == l.state.Projects.kv
        kv2    == [p \in DOMAIN kv \cup {absDir} |-> IF p = absDir THEN suffix ELSE kv[p]]
        max2   == IF suffix > l.state.MaxSuffix THEN suffix ELSE l.state.MaxSuffix
    IN  IF l.err # "nil" THEN [file |-> f, err |-> l.err]
        ELSE IF l.state.Projects.isNil THEN [file |-> f, err |-> "panic"]
        ELSE save(PortState(max2, MakeMap(kv2)), f, wr)

\* faulty variant: the scan never reports a holder
isSuffixInUseByOther_Blind(f, projectDir, suffix) ==
    {[file |-> f, path |-> "", found |-> FALSE]}

\* faulty variant: the project's own entry is not skipped
isSuffixInUseByOther_NoSelfSkip(f, projectDir, suffix) ==
    LET l       == loadPortState(f)
        kv      == l.state.Projects.kv
        holders == {p \in DOMAIN kv : kv[p] = suffix}
    IN  IF l.err # "nil" \/ holders = {}
        THEN {[file |-> f, path |-> "", found |-> FALSE]}
        ELSE {[file |-> f, path |-> p, found |-> TRUE] : p \in holders}

\* the results the scan of the map may return: the map is visited in an
\* unspecified order and the first other holder of suffix is returned
isSuffixInUseByOther(f, projectDir, suffix) ==
    LET l       == loadPortState(f)
        absDir  == Abs(projectDir)
        kv      == l.state.Projects.kv
        holders == {p \in DOMAIN kv : kv[p] = suffix /\ p # absDir}
    IN  IF l.err # "nil" \/ holders = {}
        THEN {[file |-> f, path |-> "", found |-> FALSE]}
        ELSE {[file |-> f, path |-> p, found |-> TRUE] : p \in holders}

\* delete on a map keeps it nil when it is nil
Delete(m, keys) ==
    [isNil |-> m.isNil, kv |-> [p \in DOMAIN m.kv \ keys |-> m.kv[p]]]

\* faulty variant: the high-water mark is recomputed from the entries that remain
RemoveProject_RecomputesMax(f, projectDir, wr) ==
    LET l      == loadPortState(f)
        absDir == Abs(projectDir)
        rest   == Delete(l.state.Projects, {absDir})
        max2   == IF DOMAIN rest.kv = {} THEN 0
                  ELSE CHOOSE m \in {rest.kv[p] : p \in DOMAIN rest.kv} :
                           \A p \in DOMAIN rest.kv : rest.kv[p] <= m
    IN  IF l.err # "nil" THEN [file |-> f, err |-> l.err]
        ELSE IF absDir \notin DOMAIN l.state.Projects.kv
        THEN [file |-> f, err |-> "not registered"]
        ELSE save(PortState(max2, rest), f, wr)

\* faulty variant: the entry is looked up and deleted under projectDir as given
RemoveProject_RawKey(f, projectDir, wr) ==
    LET l      == loadPortState(f)
    IN  IF l.err # "nil" THEN [file |-> f, err |-> l.err]
        ELSE IF projectDir \notin DOMAIN l.state.Projects.kv
        THEN [file |-> f, err |-> "not registered"]
        ELSE save(PortState(l.state.MaxSuffix, Delete(l.state.Projects, {projectDir})), f, wr)

\* faulty variant: the entry is deleted and the registry saved without looking
\* whether the project is registered
RemoveProject_NoLookup(f, projectDir, wr) ==
    LET l      == loadPortState(f)
        absDir == Abs(projectDir)
    IN  IF l.err # "nil" THEN [file |-> f, err |-> l.err]
        ELSE save(PortState(l.state.MaxSuffix, Delete(l.state.Projects, {absDir})), f, wr)

RemoveProject(f, projectDir, wr) ==
    LET l      == loadPortState(f)
        absDir == Abs(projectDir)
    IN  IF l.err # "nil" THEN [file |-> f, err |-> l.err]
        ELSE IF absDir \notin DOMAIN l.state.Projects.kv
        THEN [file |-> f, err |-> "not registered"]
        ELSE save(PortState(l.state.MaxSuffix, Delete(l.state.Projects, {absDir})), f, wr)

\* faulty variant: the orphans are counted but the registry is not saved
CleanOrphanedProjects_NoSave(f, exist, wr) ==
    LET l       == loadPortState(f)
        removed == DOMAIN l.state.Projects.kv \ exist
    IN  IF l.err # "nil" THEN [file |-> f, n |-> 0, err |-> l.err]
        ELSE [file |-> f, n |-> Cardinality(removed), err |-> "nil"]

\* faulty variant: the registry is saved also when nothing was removed
CleanOrphanedProjects_AlwaysSaves(f, exist, wr) ==
    LET l       == loadPortState(f)
        removed == DOMAIN l.state.Projects.kv \ exist
        sv      == save(PortState(l.state.MaxSuffix, Delete(l.state.Projects, removed)), f, wr)
    IN  IF l.err # "nil" THEN [file |-> f, n |-> 0, err |-> l.err]
        ELSE IF sv.err # "nil" THEN [file |-> sv.file, n |-> 0, err |-> sv.err]
        ELSE [file |-> sv.file, n |-> Cardinality(removed), err |-> "nil"]

\* exist is the set of paths that exist on disk: os.Stat reports "not exist"
\* for the other paths and for no path of exist
CleanOrphanedProjects(f, exist, wr) ==
    LET l       == loadPortState(f)
        removed == DOMAIN l.state.Projects.kv \ exist
        sv      == save(PortState(l.state.MaxSuffix, Delete(l.state.Projects, removed)), f, wr)
    IN  IF l.err # "nil" THEN [file |-> f, n |-> 0, err |-> l.err]
        ELSE IF removed # {}
        THEN IF sv.err # "nil" THEN [file |-> sv.file, n |-> 0, err |-> sv.err]
                               ELSE [file |-> sv.file, n |-> Cardinality(removed), err |-> "nil"]
        ELSE [file |-> f, n |-> 0, err |-> "nil"]

\* how os.Stat of a path ends: it finds a directory; it finds nothing (the
\* error os.IsNotExist recognises); or it ends otherwise (it finds a file
\* that is no directory, or fails with another error)
StatOutcomes == {"dir", "notexist", "other"}

\* the orders in which a range over a map with the keys S may visit them
RECURSIVE Orders(_)
Orders(S) ==
    IF S = {} THEN {<<>>}
    ELSE UNION {{<<p>> \o rest : rest \in Orders(S \ {p})} : p \in S}

\* type ProjectInfo
ProjectInfo(path, suffix, exists) == [Path |-> path, Suffix |-> suffix, Exists |-> exists]

\* the lists ListProjects may return: stat[p] is how os.Stat of the
\* registered path p ends, and the entries come in the order the range over the map visits the keys
ListProjects(f, stat) ==
    LET l  == loadPortState(f)
        kv == l.state.Projects.kv
    IN  IF l.err # "nil"
        THEN {[file |-> f, projects |-> <<>>, err |-> l.err]}
        ELSE {[file |-> f,
               projects |-> [i \in DOMAIN order |->
                                ProjectInfo(order[i], kv[order[i]],
                                            stat[order[i]] # "notexist")],
               err |-> "nil"] : order \in Orders(DOMAIN kv)}

----------------------------------------------------------------------------
(* Environment writer (setupEnv) and the two sail commands of the setup     *)
(* flow.  env and example are the .env and the .env.example the call finds, *)
(* wrCreate and wrFinal the ways its two writes end.                        *)

\* strings.Join(lines, "\n") + "\n"
RECURSIVE JoinLines(_)
JoinLines(lines) ==
    IF lines = <<>> THEN <<"\n">>
    ELSE IF Len(lines) = 1 THEN Head(lines) \o <<"\n">>
    ELSE Head(lines) \o <<"\n">> \o JoinLines(Tail(lines))

\* portKeys with the base of portValues, in the order of the final layout
PortKeys ==
    << [key |-> <<"A", "P", "P", "_", "P", "O", "R", "T">>, base |-> 8000],
       [key |-> <<"F", "O", "R", "W", "A", "R", "D", "_", "D", "B", "_", "P",
                  "O", "R", "T">>,
        base |-> 3300],
       [key |-> <<"F", "O", "R", "W", "A", "R", "D", "_", "R", "E", "D", "I",
                  "S", "_", "P", "O", "R", "T">>,
        base |-> 6300],
       [key |-> <<"F", "O", "R", "W", "A", "R", "D", "_", "M", "E", "I", "L",
                  "I", "S", "E", "A", "R", "C", "H", "_", "P", "O", "R", "T">>,
        base |-> 7700],
       [key |-> <<"F", "O", "R", "W", "A", "R", "D", "_", "M", "A", "I", "L",
                  "P", "I", "T", "_", "D", "A", "S", "H", "B", "O", "A", "R",
                  "D", "_", "P", "O", "R", "T">>,
        base |-> 18100],
       [key |-> <<"F", "O", "R", "W", "A", "R", "D", "_", "M", "A", "I", "L",
                  "P", "I", "T", "_", "P", "O", "R", "T">>,
        base |-> 1000],
       [key |-> <<"V", "I", "T", "E", "_", "P", "O", "R", "T">>, base |-> 5100] >>

XdebugKey == <<"S", "A", "I", "L", "_", "X", "D", "E", "B", "U", "G", "_",
               "M", "O", "D", "E">>

XdebugLine ==
    XdebugKey \o <<"=", "d", "e", "v", "e", "l", "o", "p", ",", "d", "e",
                   "b", "u", "g", ",", "c", "o", "v", "e", "r", "a", "g",
                   "e">>

\* coreUpdates: the Sail defaults of the database settings
CoreKeys == {"DB_CONNECTION", "DB_HOST", "DB_PORT", "DB_DATABASE", "DB_USERNAME", "DB_PASSWORD"}

CoreKeyText(k) ==
    CASE k = "DB_CONNECTION" -> <<"D", "B", "_", "C", "O", "N", "N", "E",
                                  "C", "T", "I", "O", "N">>
      [] k = "DB_HOST"       -> <<"D", "B", "_", "H", "O", "S", "T">>
      [] k = "DB_PORT"       -> <<"D", "B", "_", "P", "O", "R", "T">>
      [] k = "DB_DATABASE"   -> <<"D", "B", "_", "D", "A", "T", "A", "B",
                                  "A", "S", "E">>
      [] k = "DB_USERNAME"   -> <<"D", "B", "_", "U", "S", "E", "R", "N",
                                  "A", "M", "E">>
      [] k = "DB_PASSWORD"   -> <<"D", "B", "_", "P", "A", "S", "S", "W",
                                  "O", "R", "D">>

CoreValue(k) ==
    CASE k = "DB_CONNECTION" -> <<"m", "y", "s", "q", "l">>
      [] k = "DB_HOST"       -> <<"m", "y", "s", "q", "l">>
      [] k = "DB_PORT"       -> <<"3", "3", "0", "6">>
      [] k = "DB_DATABASE"   -> <<"l", "a", "r", "a", "v", "e", "l">>
      [] k = "DB_USERNAME"   -> <<"s", "a", "i", "l">>
      [] k = "DB_PASSWORD"   -> <<"p", "a", "s", "s", "w", "o", "r", "d">>

\* fmt.Sprintf("%s=%s", key, val)
CoreLine(k) == CoreKeyText(k) \o <<"=">> \o CoreValue(k)

PortLine(i, suffix) == PortKeys[i].key \o <<"=">> \o Itoa(PortKeys[i].base + suffix)

\* faulty variant: the prefix is looked for in the line as it stands
isSkipKey_Untrimmed(line) ==
    \/ \E i \in DOMAIN PortKeys : HasPrefix(line, PortKeys[i].key \o <<"=">>)
    \/ HasPrefix(line, XdebugKey \o <<"=">>)

\* a line that sets one of the port keys or SAIL_XDEBUG_MODE
isSkipKey(line) ==
    LET trimmedLine == TrimSpace(line)
    IN  \/ \E i \in DOMAIN PortKeys : HasPrefix(trimmedLine, PortKeys[i].key \o <<"=">>)
        \/ HasPrefix(trimmedLine, XdebugKey \o <<"=">>)

\* the keys of coreUpdates the line sets (one at most)
coreKeysOf(line) ==
    {k \in CoreKeys : HasPrefix(TrimSpace(line), CoreKeyText(k) \o <<"=">>)}

\* faulty variant: the database settings are rewritten on every call
applyDbSettings_Always(envCreated, resetDb) == TRUE

applyDbSettings(envCreated, resetDb) == envCreated \/ resetDb

\* the first pass over the lines: newLines and seen
RECURSIVE firstPass(_, _)
firstPass(lines, applyDb) ==
    IF lines = <<>>
    THEN [newLines |-> <<>>, seen |-> {}]
    ELSE LET line == Head(lines)
             rest == firstPass(Tail(lines), applyDb)
             keys == coreKeysOf(line)
         IN  IF isSkipKey(line)
             THEN rest
             ELSE IF applyDb /\ keys # {}
             THEN [newLines |-> <<CoreLine(CHOOSE k \in keys : TRUE)>> \o rest.newLines,
                   seen |-> keys \cup rest.seen]
             ELSE [newLines |-> <<line>> \o rest.newLines, seen |-> rest.seen]

RECURSIVE removeTrailingEmpty(_)
removeTrailingEmpty(lines) ==
    IF lines # <<>> /\ TrimSpace(lines[Len(lines)]) = <<>>
    THEN removeTrailingEmpty(SubSeq(lines, 1, Len(lines) - 1))
    ELSE lines

\* the final layout: an empty line, the seven port lines, an empty line and
\* the SAIL_XDEBUG_MODE line
finalLayout(newLines, suffix) ==
    newLines \o <<<<>>>> \o [i \in 1..7 |-> PortLine(i, suffix)] \o <<<<>>, XdebugLine>>

\* what os.WriteFile leaves of an .env: the data, the file as it was, or a
\* file cut short
writeEnv(env, data, wr) ==
    CASE wr = "ok"      -> EnvFile(data)
      [] wr = "denied"  -> env
      [] wr = "partial" -> EnvFile(<<>>)

\* setupEnv: the .env each order of the map of core settings can leave, with
\* the error returned
setupEnv(env, example, suffix, resetDb, wrCreate, wrFinal) ==
    LET envCreated == ~env.present
        created    == IF envCreated
                      THEN writeEnv(env, IF example.present THEN example.content ELSE <<>>,
                                    wrCreate)
                      ELSE env
        applyDb    == applyDbSettings(envCreated, resetDb)
        pass       == firstPass(splitLines(created.content), applyDb)
        missing    == IF applyDb THEN CoreKeys \ pass.seen ELSE {}
        layout(order) ==
            finalLayout(removeTrailingEmpty(pass.newLines
                                            \o [i \in DOMAIN order |-> CoreLine(order[i])]),
                        suffix)
    IN  IF envCreated /\ wrCreate # "ok"
        THEN {[env |-> created, err |-> "write"]}
        ELSE {[env |-> writeEnv(created, JoinLines(layout(order)), wrFinal),
               err |-> IF wrFinal = "ok" THEN "nil" ELSE "write"] :
                 order \in Orders(missing)}

\* how os.Stat of vendor/bin/sail ends, and how a command that is run ends
SailStats == {"found", "notexist", "error"}

RunOutcomes == {"ok", "failed"}

\* faulty variant: --fresh is not looked at
runSailInit_IgnoresFresh(forceInstall, stat, run) ==
    IF stat = "found"
    THEN [ran |-> FALSE, err |-> "nil"]
    ELSE [ran |-> TRUE, err |-> IF run = "ok" THEN "nil" ELSE "run"]

\* runSailInit: whether the Docker composer install was run, and the error
runSailInit(forceInstall, stat, run) ==
    IF ~forceInstall /\ stat = "found"
    THEN [ran |-> FALSE, err |-> "nil"]
    ELSE [ran |-> TRUE, err |-> IF run = "ok" THEN "nil" ELSE "run"]

\* runSailUp: whether sail up -d was run, and the error
runSailUp(stat, run) ==
    IF stat = "notexist"
    THEN [ran |-> FALSE, err |-> "nosail"]
    ELSE [ran |-> TRUE, err |-> IF run = "ok" THEN "nil" ELSE "run"]

----------------------------------------------------------------------------
(* State: the registry file, the last call with what it was given and what *)
(* it returned (and whether it came right after a call it is compared      *)
(* with), the largest suffix a successful saveProjectSuffix took, and the  *)
(* setup flow in progress                                                  *)

\* the .env files a project directory may hold
EnvFiles ==
    { NoEnv,
      EnvFile(AppPortKey \o <<"8", "0", "0", "1", "\n">>),
      EnvFile(AppPortKey \o <<"5", "0", "0", "\n">>) }

\* the values of the APP_PORT line of the .env files below
AppPortValues == {500, 7999, 8000, 8051}

\* the .env files whose one APP_PORT line holds v: the line alone, after
\* another line with a blank before it and "\r\n" after it, and without the
\* final "\n"
EnvWithPort(v) ==
    { EnvFile(AppPortLine(v) \o <<"\n">>),
      EnvFile(<<"A", "=", "1", "\n", " ">> \o AppPortLine(v) \o <<"\r", "\n">>),
      EnvFile(AppPortLine(v)) }

\* the .env files without a usable APP_PORT line
EnvWithoutPort ==
    { EnvFile(<<>>),
      EnvFile(<<"A", "=", "1", "\n">>),
      EnvFile(AppPortKey \o <<"\n">>),
      EnvFile(AppPortKey \o <<"x", "\n">>) }

\* the .env file with two APP_PORT lines, holding v first and w second
EnvTwoPorts(v, w) ==
    EnvFile(AppPortLine(v) \o <<"\n">> \o AppPortLine(w) \o <<"\n">>)

PortPairs == {<<500, 8051>>, <<8051, 8000>>, <<7999, 500>>}

EnvTexts ==
    {NoEnv} \cup EnvWithoutPort \cup UNION {EnvWithPort(v) : v \in AppPortValues}
            \cup {EnvTwoPorts(vw[1], vw[2]) : vw \in PortPairs}

\* the ports other processes may hold when suffix is probed
InUseChoices(suffix) ==
    { {}, {8000 + suffix}, {3300 + suffix, 5100 + suffix} }

MapsOver(keys) == UNION {[S -> Suffixes] : S \in SUBSET keys}

\* the registries a test, an earlier run or the user may have left in the file
RegistryFiles ==
    {AbsentFile, CorruptFile}
    \cup {JsonFile(TRUE, m, "null", EmptyKV) : m \in Suffixes}
    \cup {JsonFile(FALSE, 0, "object", EmptyKV), JsonFile(TRUE, 1, "missing", EmptyKV)}
    \cup {JsonFile(TRUE, m, "object", kv) : m \in Suffixes, kv \in MapsOver(Paths)}

\* the in-memory registries handed to save
PortStates ==
    {PortState(m, NilMap) : m \in Suffixes}
    \cup {PortState(m, MakeMap(kv)) : m \in Suffixes, kv \in MapsOver(StorePaths)}

NoneSaved == 0 - 1

\* the setup flow of main: where it stands (pc), the working directory, the
\* --dry-run flag, the variables suggested, existing, existed and suffix,
\* how the first-ever prompt was answered (first), the line read last and
\* the error of the save of this run (saved, "none" before the save and when
\* it is skipped)
IdleFlow ==
    [pc |-> "idle", dir |-> "", dryRun |-> FALSE, suggested |-> 0, existing |-> FALSE,
     existed |-> FALSE, suffix |-> 0, first |-> "none", answer |-> <<>>,
     saved |-> "none"]

Init ==
    /\ file = AbsentFile
    /\ last = [op |-> "init"]
    /\ maxSaved = NoneSaved
    /\ flow = IdleFlow

InitAny ==
    /\ file \in RegistryFiles
    /\ last = [op |-> "init"]
    /\ maxSaved = NoneSaved
    /\ flow = IdleFlow

InitStore ==
    /\ file \in {AbsentFile, CorruptFile, JsonFile(TRUE, 1, "missing", EmptyKV),
                 JsonFile(FALSE, 0, "object", [p \in {"/a"} |-> 1])}
    /\ last = [op |-> "init"]
    /\ maxSaved = NoneSaved
    /\ flow = IdleFlow

----------------------------------------------------------------------------
(* Actions: one call each *)

ValidateSuffixCall ==
    \E s \in ProbeSuffixes :
        /\ last' = [op |-> "ValidateSuffix", suffix |-> s, err |-> ValidateSuffix(s)]
        /\ UNCHANGED <<file, maxSaved, flow>>

CheckSuffixPortsAvailableCall ==
    \E s \in ProbeSuffixes : \E inUse \in InUseChoices(s) :
        /\ last' = [op |-> "CheckSuffixPortsAvailable", suffix |-> s, inUse |-> inUse,
                    probed |-> SuffixPorts(s),
                    busy |-> CheckSuffixPortsAvailable(s, inUse),
                    held |-> heldAfterChecks(SuffixPorts(s), inUse, {})]
        /\ UNCHANGED <<file, maxSaved, flow>>

CheckPortAvailableCall ==
    \E port \in ProbePorts : \E inUse \in {{}, {8000}, {8000, 65535}} :
        /\ last' = [op |-> "CheckPortAvailable", port |-> port, inUse |-> inUse,
                    ok |-> CheckPortAvailable(port, inUse),
                    held |-> heldAfterCheck(port, inUse, {})]
        /\ UNCHANGED <<file, maxSaved, flow>>

loadPortStateCall ==
    LET r == loadPortState(file)
    IN  /\ last' = [op |-> "loadPortState", state |-> r.state, existed |-> r.existed,
                    err |-> r.err,
                    afterSave |-> (last.op = "save" /\ last.err = "nil")]
        /\ UNCHANGED <<file, maxSaved, flow>>

saveCall ==
    \E st \in PortStates, wr \in WriteOutcomes :
        LET r == save(st, file, wr)
        IN  /\ file' = r.file
            /\ last' = [op |-> "save", state |-> st, err |-> r.err]
            /\ UNCHANGED <<maxSaved, flow>>

\* the record of a getSuggestedSuffix(d) that found the .env e and returned r
SuggestedCall(d, e, r) ==
    [op |-> "getSuggestedSuffix", dir |-> d, env |-> e,
     suffix |-> r.suffix, existing |-> r.existing,
     existed |-> r.existed, err |-> r.err,
     again |-> (/\ last.op = "getSuggestedSuffix"
                /\ Abs(last.dir) = Abs(d)
                /\ last.env = e),
     afterSave |-> (/\ last.op = "saveProjectSuffix"
                    /\ last.err = "nil"
                    /\ Abs(last.dir) = Abs(d))]

getSuggestedSuffixOver(envs) ==
    \E d \in DirArgs, e \in envs :
        LET r == getSuggestedSuffix(file, e, d)
        IN  /\ file' = r.file
            /\ last' = SuggestedCall(d, e, r)
            /\ UNCHANGED <<maxSaved, flow>>

getSuggestedSuffixCall == getSuggestedSuffixOver(EnvFiles)

\* the same call, for a project with any of the .env files of EnvTexts
getSuggestedSuffixEnvCall == getSuggestedSuffixOver(EnvTexts)

saveProjectSuffixCall ==
    \E d \in DirArgs, s \in Suffixes, wr \in WriteOutcomes :
        LET r == saveProjectSuffix(file, d, s, wr)
        IN  /\ file' = r.file
            /\ last' = [op |-> "saveProjectSuffix", dir |-> d, suffix |-> s, err |-> r.err]
            /\ maxSaved' = IF r.err = "nil" /\ s > maxSaved THEN s ELSE maxSaved
            /\ UNCHANGED flow

isSuffixInUseByOtherCall ==
    \E d \in DirArgs, s \in Suffixes : \E r \in isSuffixInUseByOther(file, d, s) :
        /\ file' = r.file
        /\ last' = [op |-> "isSuffixInUseByOther", dir |-> d, suffix |-> s,
                    path |-> r.path, found |-> r.found]
        /\ UNCHANGED <<maxSaved, flow>>

RemoveProjectCall ==
    \E d \in DirArgs, wr \in WriteOutcomes :
        LET r == RemoveProject(file, d, wr)
        IN  /\ file' = r.file
            /\ last' = [op |-> "RemoveProject", dir |-> d, err |-> r.err,
                        afterSaveAs |-> IF /\ last.op = "saveProjectSuffix"
                                           /\ last.err = "nil"
                                           /\ Abs(last.dir) = Abs(d)
                                        THEN last.dir ELSE ""]
            /\ UNCHANGED <<maxSaved, flow>>

CleanOrphanedProjectsCall ==
    \E exist \in SUBSET Paths, wr \in WriteOutcomes :
        LET r == CleanOrphanedProjects(file, exist, wr)
        IN  /\ file' = r.file
            /\ last' = [op |-> "CleanOrphanedProjects", exist |-> exist, n |-> r.n,
                        err |-> r.err,
                        again |-> (/\ last.op = "CleanOrphanedProjects"
                                   /\ last.err = "nil"
                                   /\ last.n > 0
                                   /\ last.exist = exist)]
            /\ UNCHANGED <<maxSaved, flow>>

ListProjectsCall ==
    \E stat \in [DOMAIN loadPortState(file).state.Projects.kv -> StatOutcomes] :
    \E r \in ListProjects(file, stat) :
        /\ file' = r.file
        /\ last' = [op |-> "ListProjects", stat |-> stat, projects |-> r.projects,
                    err |-> r.err]
        /\ UNCHANGED <<maxSaved, flow>>

Next ==
    \/ loadPortStateCall
    \/ getSuggestedSuffixCall
    \/ saveProjectSuffixCall
    \/ isSuffixInUseByOtherCall
    \/ RemoveProjectCall
    \/ CleanOrphanedProjectsCall

\* the program started without a registry file
Spec == Init /\ [][Next]_vars

\* the registry operations over any registry file an earlier run, a test or
\* the user may have left
SpecAny == InitAny /\ [][Next]_vars

NextStore ==
    \/ saveCall
    \/ loadPortStateCall

\* the store alone: save of any registry, and load
SpecStore == InitStore /\ [][NextStore]_vars

NextOwn ==
    \/ saveCall
    \/ loadPortStateCall
    \/ saveProjectSuffixCall

\* the registry files the program's own save writes, starting without a
\* file, each loaded and given a new assignment
SpecOwn == Init /\ [][NextOwn]_vars

NextProbe ==
    \/ ValidateSuffixCall
    \/ CheckSuffixPortsAvailableCall
    \/ CheckPortAvailableCall

\* the validator and the port probe, over any registry file
SpecProbe == InitAny /\ [][NextProbe]_vars

NextAll ==
    \/ loadPortStateCall
    \/ getSuggestedSuffixCall
    \/ saveProjectSuffixCall
    \/ isSuffixInUseByOtherCall
    \/ RemoveProjectCall
    \/ CleanOrphanedProjectsCall
    \/ ListProjectsCall

\* the registry operations and the listing, started without a registry file,
\* with one that cannot be read, or with one that holds a high-water mark only
SpecAll == InitStore /\ [][NextAll]_vars

NextSuggest ==
    \/ getSuggestedSuffixEnvCall

\* the suggestion alone, over any registry file and the .env files of EnvTexts
SpecSuggest == InitAny /\ [][NextSuggest]_vars

----------------------------------------------------------------------------
(* The setup flow of main, a step at a time.  The .env, composer and sail  *)
(* steps after the save are recorded as the calls they make.               *)

\* the directories os.Getwd returns
WorkDirs == {"/a", "/b"}

\* the .env files the working directory may hold: none, one that yields
\* the suffix after the default one, one that yields none, and one that
\* yields the suffix after the largest valid one
FlowEnvs ==
    { NoEnv,
      EnvFile(AppPortLine(AppBase + DefaultSuffix + 1) \o <<"\n">>),
      EnvFile(AppPortLine(500) \o <<"\n">>),
      EnvFile(AppPortLine(AppBase + MaxPortSuffix + 1) \o <<"\n">>) }

\* the .env.example of the working directory
FlowExample ==
    EnvFile(<<"D", "B", "_", "C", "O", "N", "N", "E", "C", "T", "I", "O",
              "N", "=", "a", "\n", "D", "B", "_", "H", "O", "S", "T", "=",
              "b", "\n", "D", "B", "_", "P", "O", "R", "T", "=", "1", "\n",
              "D", "B", "_", "D", "A", "T", "A", "B", "A", "S", "E", "=",
              "c", "\n", "D", "B", "_", "U", "S", "E", "R", "N", "A", "M",
              "E", "=", "d", "\n", "D", "B", "_", "P", "A", "S", "S", "W",
              "O", "R", "D", "=", "e", "\n">>)

\* the .env files the working directory may hold when setupEnv is reached
FlowSetupEnvs ==
    { NoEnv,
      EnvFile(<<"D", "B", "_", "C", "O", "N", "N", "E", "C", "T", "I", "O",
                "N", "=", "a", "\n", "D", "B", "_", "H", "O", "S", "T", "=",
                "b", "\n", "D", "B", "_", "P", "O", "R", "T", "=", "1", "\n",
                "D", "B", "_", "D", "A", "T", "A", "B", "A", "S", "E", "=",
                "c", "\n", "D", "B", "_", "U", "S", "E", "R", "N", "A", "M",
                "E", "=", "d", "\n", "D", "B", "_", "P", "A", "S", "S", "W",
                "O", "R", "D", "=", "e", "\n", "\n", "A", "P", "P", "_", "P",
                "O", "R", "T", "=", "8", "0", "4", "8", "\n">>) }

\* the lines the user may enter at a prompt: nothing, no number, a negative
\* number, the default suffix and the one after it, and a number above
\* MaxPortSuffix
Answers ==
    { <<"\n">>, <<"x", "\n">>, <<"-", "1", "\n">>,
      Itoa(DefaultSuffix) \o <<"\n">>, Itoa(DefaultSuffix + 1) \o <<"\n">>,
      Itoa(MaxPortSuffix + 1) \o <<"\n">> }

\* main up to the first prompt: the suggestion for the working directory
flowStart ==
    /\ flow.pc = "idle"
    /\ loadPortState(file).err = "nil" =>
           loadPortState(file).state.MaxSuffix < DefaultSuffix + MaxNew
    /\ \E d \in WorkDirs, e \in FlowEnvs, dry \in BOOLEAN :
           LET r     == getSuggestedSuffix(file, e, d)
               first == ~r.existed /\ ~r.existing
           IN  /\ file' = r.file
               /\ last' = SuggestedCall(d, e, r)
               /\ flow' = IF r.err # "nil"
                          THEN IdleFlow
                          ELSE [pc |-> IF first THEN "first" ELSE "confirm",
                                dir |-> d, dryRun |-> dry, suggested |-> r.suffix,
                                existing |-> r.existing, existed |-> r.existed,
                                suffix |-> IF first THEN 0 ELSE r.suffix,
                                first |-> "none", answer |-> <<>>, saved |-> "none"]
    /\ UNCHANGED maxSaved

\* faulty variant: a typed starting suffix is taken without ValidateSuffix
flowFirstPrompt_NoValidate ==
    /\ flow.pc = "first"
    /\ \E a \in Answers :
           LET input == TrimSpace(a)
               sc    == ScanInt(input)
           IN  IF input = <<>>
               THEN flow' = [flow EXCEPT !.pc = "confirm", !.suggested = DefaultSuffix,
                                        !.suffix = DefaultSuffix, !.first = "default",
                                        !.answer = a]
               ELSE IF ~sc.ok
               THEN flow' = [flow EXCEPT !.answer = a]
               ELSE flow' = [flow EXCEPT !.pc = "confirm", !.suggested = sc.n,
                                        !.suffix = sc.n, !.first = "typed",
                                        !.answer = a]
    /\ UNCHANGED <<file, last, maxSaved>>

\* one round of the first-ever prompt
flowFirstPrompt ==
    /\ flow.pc = "first"
    /\ \E a \in Answers :
           LET input == TrimSpace(a)
               sc    == ScanInt(input)
               v     == ValidateSuffix(sc.n)
               valid == [op |-> "ValidateSuffix", suffix |-> sc.n, err |-> v]
           IN  IF input = <<>>
               THEN /\ flow' = [flow EXCEPT !.pc = "confirm", !.suggested = DefaultSuffix,
                                            !.suffix = DefaultSuffix, !.first = "default",
                                            !.answer = a]
                    /\ UNCHANGED last
               ELSE IF ~sc.ok
               THEN /\ flow' = [flow EXCEPT !.answer = a]
                    /\ UNCHANGED last
               ELSE IF v # "nil"
               THEN /\ flow' = [flow EXCEPT !.answer = a]
                    /\ last' = valid
               ELSE /\ flow' = [flow EXCEPT !.pc = "confirm", !.suggested = sc.n,
                                            !.suffix = sc.n, !.first = "typed",
                                            !.answer = a]
                    /\ last' = valid
    /\ UNCHANGED <<file, maxSaved>>

\* one round of the confirmation prompt, with the collision check
flowConfirm ==
    /\ flow.pc = "confirm"
    /\ \E a \in Answers :
           LET input == TrimSpace(a)
               typed == input # <<>>
               sc    == ScanInt(input)
               v     == ValidateSuffix(sc.n)
               cand  == IF typed THEN sc.n ELSE flow.suffix
           IN  IF typed /\ ~sc.ok
               THEN /\ flow' = [flow EXCEPT !.answer = a]
                    /\ UNCHANGED last
               ELSE IF typed /\ v # "nil"
               THEN /\ flow' = [flow EXCEPT !.answer = a]
                    /\ last' = [op |-> "ValidateSuffix", suffix |-> sc.n, err |-> v]
               ELSE \E r \in isSuffixInUseByOther(file, flow.dir, cand) :
                       /\ last' = [op |-> "isSuffixInUseByOther", dir |-> flow.dir,
                                   suffix |-> cand, path |-> r.path, found |-> r.found]
                       /\ flow' = IF r.found
                                  THEN [flow EXCEPT !.suffix = IF typed THEN cand
                                                                ELSE flow.suggested,
                                                    !.answer = a]
                                  ELSE [flow EXCEPT !.pc = "probe", !.suffix = cand,
                                                    !.answer = <<>>]
    /\ UNCHANGED <<file, maxSaved>>

\* faulty variant: busy ports end the process whatever the answer is
flowProbe_BlocksWhenBusy ==
    /\ flow.pc = "probe"
    /\ \E inUse \in InUseChoices(flow.suffix), yes \in BOOLEAN :
           LET busy == CheckSuffixPortsAvailable(flow.suffix, inUse)
           IN  /\ last' = [op |-> "CheckSuffixPortsAvailable", suffix |-> flow.suffix,
                           inUse |-> inUse, probed |-> SuffixPorts(flow.suffix),
                           busy |-> busy, asked |-> busy # <<>>, yes |-> yes]
               /\ flow' = IF busy # <<>> THEN IdleFlow
                                         ELSE [flow EXCEPT !.pc = "save"]
    /\ UNCHANGED <<file, maxSaved>>

\* the port probe and, when ports are busy, the question whether to continue:
\* any answer but "y" ends the process
flowProbe ==
    /\ flow.pc = "probe"
    /\ \E inUse \in InUseChoices(flow.suffix), yes \in BOOLEAN :
           LET busy == CheckSuffixPortsAvailable(flow.suffix, inUse)
           IN  /\ last' = [op |-> "CheckSuffixPortsAvailable", suffix |-> flow.suffix,
                           inUse |-> inUse, probed |-> SuffixPorts(flow.suffix),
                           busy |-> busy, asked |-> busy # <<>>, yes |-> yes]
               /\ flow' = IF busy # <<>> /\ ~yes THEN IdleFlow
                                                  ELSE [flow EXCEPT !.pc = "save"]
    /\ UNCHANGED <<file, maxSaved>>

\* faulty variant: the suffix is saved with --dry-run too
flowSave_IgnoresDryRun ==
    /\ flow.pc = "save"
    /\ \E wr \in WriteOutcomes :
           LET r == saveProjectSuffix(file, flow.dir, flow.suffix, wr)
           IN  /\ file' = r.file
               /\ last' = [op |-> "saveProjectSuffix", dir |-> flow.dir,
                           suffix |-> flow.suffix, err |-> r.err]
               /\ maxSaved' = IF r.err = "nil" /\ flow.suffix > maxSaved
                              THEN flow.suffix ELSE maxSaved
               /\ flow' = IF r.err = "panic" THEN IdleFlow
                          ELSE [flow EXCEPT !.pc = "env", !.saved = r.err]

\* the save of the confirmed suffix: skipped with --dry-run; an error is
\* printed and the flow goes on; a panic ends the process
flowSave ==
    /\ flow.pc = "save"
    /\ IF flow.dryRun
       THEN /\ flow' = [flow EXCEPT !.pc = "env"]
            /\ UNCHANGED <<file, last, maxSaved>>
       ELSE \E wr \in WriteOutcomes :
               LET r == saveProjectSuffix(file, flow.dir, flow.suffix, wr)
               IN  /\ file' = r.file
                   /\ last' = [op |-> "saveProjectSuffix", dir |-> flow.dir,
                               suffix |-> flow.suffix, err |-> r.err]
                   /\ maxSaved' = IF r.err = "nil" /\ flow.suffix > maxSaved
                                  THEN flow.suffix ELSE maxSaved
                   /\ flow' = IF r.err = "panic" THEN IdleFlow
                              ELSE [flow EXCEPT !.pc = "env", !.saved = r.err]

\* step 1, the .env: only printed with --dry-run; an error ends the process
flowSetupEnv ==
    /\ flow.pc = "env"
    /\ IF flow.dryRun
       THEN /\ flow' = [flow EXCEPT !.pc = "init"]
            /\ UNCHANGED last
       ELSE \E env \in FlowSetupEnvs, resetDb \in BOOLEAN,
               wrCreate \in WriteOutcomes, wrFinal \in WriteOutcomes :
               \E r \in setupEnv(env, FlowExample, flow.suffix, resetDb, wrCreate, wrFinal) :
                   /\ last' = [op |-> "setupEnv", dir |-> flow.dir, suffix |-> flow.suffix,
                               written |-> (r.env # env), err |-> r.err]
                   /\ flow' = IF r.err # "nil" THEN IdleFlow
                                               ELSE [flow EXCEPT !.pc = "init"]
    /\ UNCHANGED <<file, maxSaved>>

\* step 2, composer install: only printed with --dry-run; an error ends the
\* process
flowSailInit ==
    /\ flow.pc = "init"
    /\ IF flow.dryRun
       THEN /\ flow' = [flow EXCEPT !.pc = "up"]
            /\ UNCHANGED last
       ELSE \E fresh \in BOOLEAN, stat \in SailStats, run \in RunOutcomes :
               LET r == runSailInit(fresh, stat, run)
               IN  /\ last' = [op |-> "runSailInit", forceInstall |-> fresh, stat |-> stat,
                               ran |-> r.ran, err |-> r.err]
                   /\ flow' = IF r.err # "nil" THEN IdleFlow
                                               ELSE [flow EXCEPT !.pc = "up"]
    /\ UNCHANGED <<file, maxSaved>>

\* step 3, sail up -d, and the end of main
flowFinish ==
    /\ flow.pc = "up"
    /\ IF flow.dryRun
       THEN UNCHANGED last
       ELSE \E stat \in SailStats, run \in RunOutcomes :
               LET r == runSailUp(stat, run)
               IN  last' = [op |-> "runSailUp", stat |-> stat, ran |-> r.ran,
                            err |-> r.err]
    /\ flow' = IdleFlow
    /\ UNCHANGED <<file, maxSaved>>

\* --remove and --clean between two setup flows
removeFlag == flow.pc = "idle" /\ RemoveProjectCall

cleanFlag == flow.pc = "idle" /\ CleanOrphanedProjectsCall

NextFlow ==
    \/ flowStart
    \/ flowFirstPrompt
    \/ flowConfirm
    \/ flowProbe
    \/ flowSave
    \/ flowSetupEnv
    \/ flowSailInit
    \/ flowFinish
    \/ removeFlag
    \/ cleanFlag

\* setup flows run one at a time, with --remove and --clean between them,
\* started without a registry file
SpecFlow == Init /\ [][NextFlow]_vars

\* the same, where a process that is not waiting for input goes on: the probe
\* and the save are steps the program takes by itself
SpecFlowFair == SpecFlow /\ WF_vars(flowProbe) /\ WF_vars(flowSave)

----------------------------------------------------------------------------
(* The environment writer alone, over .env files of every layout it tells   *)
(* apart                                                                    *)

\* the .env files setupEnv is called on: none; an empty one; one with a
\* database setting and an old port line; one with a database setting and
\* blank lines around old port and debug lines; one with "\r\n", blanks
\* before a key and a last line of blanks; one whose lines only look like
\* settings, without a final "\n"; one with two old port lines of different
\* values, the first behind a blank
SetupEnvs ==
    { NoEnv,
      EnvFile(<<>>),
      EnvFile(<<"A", "P", "P", "_", "N", "A", "M", "E", "=", "x", "\n", "D",
                "B", "_", "H", "O", "S", "T", "=", "1", "2", "7", ".", "0",
                ".", "0", ".", "1", "\n", "A", "P", "P", "_", "P", "O", "R",
                "T", "=", "8", "0", "\n">>),
      EnvFile(<<"A", "=", "1", "\n", "D", "B", "_", "H", "O", "S", "T", "=",
                "d", "b", "\n", "\n", "A", "P", "P", "_", "P", "O", "R", "T",
                "=", "8", "0", "0", "1", "\n", "\n", "V", "I", "T", "E", "_",
                "P", "O", "R", "T", "=", "5", "1", "0", "1", "\n", "S", "A",
                "I", "L", "_", "X", "D", "E", "B", "U", "G", "_", "M", "O",
                "D", "E", "=", "o", "f", "f", "\n", "\n">>),
      EnvFile(<<" ", "F", "O", "R", "W", "A", "R", "D", "_", "D", "B", "_",
                "P", "O", "R", "T", "=", "1", "\r", "\n", "\r", "\n", "B",
                "=", "2", "\r", "\n", " ", " ", "\n">>),
      EnvFile(<<"D", "B", "_", "P", "O", "R", "T", "=", "5", "4", "3", "2",
                "\n", "#", "A", "P", "P", "_", "P", "O", "R", "T", "=", "1",
                "\n", "e", "x", "p", "o", "r", "t", " ", "A", "P", "P", "_",
                "P", "O", "R", "T", "=", "2">>),
      EnvFile(<<" ", "A", "P", "P", "_", "P", "O", "R", "T", "=", "8", "0",
                "0", "9", "\n", "A", "P", "P", "_", "P", "O", "R", "T", "=",
                "8", "0", "1", "0", "\n">>) }

\* the .env.example files: none, and one with settings of every kind
ExampleEnvs ==
    { NoEnv,
      EnvFile(<<"A", "P", "P", "_", "N", "A", "M", "E", "=", "L", "a", "r",
                "a", "v", "e", "l", "\n", "D", "B", "_", "C", "O", "N", "N",
                "E", "C", "T", "I", "O", "N", "=", "s", "q", "l", "i", "t",
                "e", "\n", "D", "B", "_", "H", "O", "S", "T", "=", "1", "2",
                "7", ".", "0", ".", "0", ".", "1", "\n", "D", "B", "_", "P",
                "O", "R", "T", "=", "3", "3", "0", "6", "\n", "D", "B", "_",
                "D", "A", "T", "A", "B", "A", "S", "E", "=", "l", "a", "r",
                "a", "v", "e", "l", "\n", "A", "P", "P", "_", "P", "O", "R",
                "T", "=", "8", "0", "\n">>) }

\* the suffixes written into the .env
EnvSuffixes == Suffixes \cup {DefaultSuffix, MaxPortSuffix}

\* a call of setupEnv about to be made, with what it will find
InitEnv ==
    /\ file = AbsentFile
    /\ \E env \in SetupEnvs, example \in ExampleEnvs, s \in EnvSuffixes, resetDb \in BOOLEAN,
          wrCreate \in WriteOutcomes, wrFinal \in WriteOutcomes :
           last = [op |-> "call setupEnv", env |-> env, example |-> example, suffix |-> s,
                   resetDb |-> resetDb, wrCreate |-> wrCreate, wrFinal |-> wrFinal]
    /\ maxSaved = NoneSaved
    /\ flow = IdleFlow

setupEnvCall ==
    /\ last.op = "call setupEnv"
    /\ \E r \in setupEnv(last.env, last.example, last.suffix, last.resetDb,
                         last.wrCreate, last.wrFinal) :
           last' = [op |-> "setupEnv", env |-> last.env, example |-> last.example,
                    suffix |-> last.suffix, resetDb |-> last.resetDb,
                    out |-> r.env, err |-> r.err]
    /\ UNCHANGED <<file, maxSaved, flow>>

NextEnv ==
    \/ setupEnvCall

SpecEnv == InitEnv /\ [][NextEnv]_vars

----------------------------------------------------------------------------
(* Two processes of the tool on one registry file.  In this part flow holds  *)
(* one record per process: each process is a setup flow from its collision   *)
(* check to the end of its save.  The port probe between the two touches no  *)
(* file and is left out.                                                     *)

RaceProcs == {1, 2}

\* the working directory of each process
RaceDir(p) == IF p = 1 THEN "/a" ELSE "/b"

\* a process at its confirmation prompt: the suffix it is about to check, the
\* registry file as its saveProjectSuffix read it (seen), the bytes it
\* marshalled (data), whether another process wrote the file since its
\* collision check (raced) and since it opened the file for writing (over),
\* and the error of its saveProjectSuffix ("none" until it returns)
RaceStart(p) ==
    [pc |-> "check", dir |-> RaceDir(p), suffix |-> 0, seen |-> AbsentFile,
     data |-> AbsentFile, raced |-> FALSE, over |-> FALSE, err |-> "none"]

InitRace ==
    /\ file = AbsentFile
    /\ last = [op |-> "init"]
    /\ maxSaved = NoneSaved
    /\ flow = [p \in RaceProcs |-> RaceStart(p)]

\* process p has written to the file: every other process between its
\* collision check and the end of its write has been overtaken
Touched(fl, p) ==
    [q \in RaceProcs |->
        IF q # p /\ fl[q].pc \in {"load", "open", "writing"}
        THEN [fl[q] EXCEPT !.raced = TRUE,
                           !.over = fl[q].over \/ fl[q].pc = "writing"]
        ELSE fl[q]]

\* the confirmation loop of main with a typed suffix: isSuffixInUseByOther
\* reads the file; a collision asks again
raceCheck(p) ==
    /\ flow[p].pc = "check"
    /\ \E s \in Suffixes : \E r \in isSuffixInUseByOther(file, flow[p].dir, s) :
           /\ last' = [op |-> "isSuffixInUseByOther", proc |-> p, dir |-> flow[p].dir,
                       suffix |-> s, path |-> r.path, found |-> r.found]
           /\ flow' = [flow EXCEPT ![p] =
                          IF r.found THEN [@ EXCEPT !.suffix = s]
                                     ELSE [@ EXCEPT !.pc = "load", !.suffix = s]]
    /\ UNCHANGED <<file, maxSaved>>

\* saveProjectSuffix, first part: loadPortState reads the file; an error of
\* it is returned
raceLoad(p) ==
    /\ flow[p].pc = "load"
    /\ LET l == loadPortState(file)
       IN  IF l.err # "nil"
           THEN /\ flow' = [flow EXCEPT ![p] = [@ EXCEPT !.pc = "done", !.seen = file,
                                                         !.err = l.err]]
                /\ last' = [op |-> "saveProjectSuffix", proc |-> p, dir |-> flow[p].dir,
                            suffix |-> flow[p].suffix, err |-> l.err]
           ELSE /\ flow' = [flow EXCEPT ![p] = [@ EXCEPT !.pc = "open", !.seen = file]]
                /\ UNCHANGED last
    /\ UNCHANGED <<file, maxSaved>>

\* faulty variant: the registry is read again when the file is opened for
\* writing
raceOpen_Reloads(p) ==
    /\ flow[p].pc = "open"
    /\ \E wr \in WriteOutcomes :
           LET r == saveProjectSuffix(file, flow[p].dir, flow[p].suffix, wr)
           IN  CASE r.err = "nil" ->
                      /\ file' = CorruptFile
                      /\ flow' = [Touched(flow, p) EXCEPT ![p] =
                                     [@ EXCEPT !.pc = "writing", !.data = r.file]]
                      /\ UNCHANGED last
                 [] r.err = "write" /\ wr = "partial" ->
                      /\ file' = CorruptFile
                      /\ flow' = [Touched(flow, p) EXCEPT ![p] =
                                     [@ EXCEPT !.pc = "done", !.err = r.err]]
                      /\ last' = [op |-> "saveProjectSuffix", proc |-> p,
                                  dir |-> flow[p].dir, suffix |-> flow[p].suffix,
                                  err |-> r.err]
                 [] OTHER ->
                      /\ file' = file
                      /\ flow' = [flow EXCEPT ![p] = [@ EXCEPT !.pc = "done", !.err = r.err]]
                      /\ last' = [op |-> "saveProjectSuffix", proc |-> p,
                                  dir |-> flow[p].dir, suffix |-> flow[p].suffix,
                                  err |-> r.err]
    /\ UNCHANGED maxSaved

\* saveProjectSuffix, second part: the entry is set in the registry that was
\* read, the registry is marshalled, and os.WriteFile opens the file, which
\* empties it; the write may be refused before that, or fail after it
raceOpen(p) ==
    /\ flow[p].pc = "open"
    /\ \E wr \in WriteOutcomes :
           LET r == saveProjectSuffix(flow[p].seen, flow[p].dir, flow[p].suffix, wr)
           IN  CASE r.err = "nil" ->
                      /\ file' = CorruptFile
                      /\ flow' = [Touched(flow, p) EXCEPT ![p] =
                                     [@ EXCEPT !.pc = "writing", !.data = r.file]]
                      /\ UNCHANGED last
                 [] r.err = "write" /\ wr = "partial" ->
                      /\ file' = CorruptFile
                      /\ flow' = [Touched(flow, p) EXCEPT ![p] =
                                     [@ EXCEPT !.pc = "done", !.err = r.err]]
                      /\ last' = [op |-> "saveProjectSuffix", proc |-> p,
                                  dir |-> flow[p].dir, suffix |-> flow[p].suffix,
                                  err |-> r.err]
                 [] OTHER ->
                      /\ file' = file
                      /\ flow' = [flow EXCEPT ![p] = [@ EXCEPT !.pc = "done", !.err = r.err]]
                      /\ last' = [op |-> "saveProjectSuffix", proc |-> p,
                                  dir |-> flow[p].dir, suffix |-> flow[p].suffix,
                                  err |-> r.err]
    /\ UNCHANGED maxSaved

\* the end of os.WriteFile: the marshalled bytes are in the file; when
\* another process wrote to the file meanwhile, the file holds these bytes or
\* a mix that does not parse; no error is returned either way
raceFinish(p) ==
    /\ flow[p].pc = "writing"
    /\ \E mixed \in {FALSE} \cup {flow[p].over} :
           file' = IF mixed THEN CorruptFile ELSE flow[p].data
    /\ flow' = [Touched(flow, p) EXCEPT ![p] = [@ EXCEPT !.pc = "done", !.err = "nil"]]
    /\ last' = [op |-> "saveProjectSuffix", proc |-> p, dir |-> flow[p].dir,
                suffix |-> flow[p].suffix, err |-> "nil"]
    /\ maxSaved' = IF flow[p].suffix > maxSaved THEN flow[p].suffix ELSE maxSaved

\* the tool is started again in the directory of process p
raceRestart(p) ==
    /\ flow[p].pc = "done"
    /\ flow' = [flow EXCEPT ![p] = RaceStart(p)]
    /\ UNCHANGED <<file, last, maxSaved>>

NextRace ==
    \E p \in RaceProcs :
        \/ raceCheck(p)
        \/ raceLoad(p)
        \/ raceOpen(p)
        \/ raceFinish(p)
        \/ raceRestart(p)

\* two processes whose steps interleave in any order, started without a
\* registry file
SpecRace == InitRace /\ [][NextRace]_vars

----------------------------------------------------------------------------
(* Properties *)

\* the registry a load of the file returns, where the file can be loaded
Loadable(f) == loadPortState(f).err = "nil"

Registry(f) == loadPortState(f).state

PortsOf(ports) == [i \in DOMAIN ports |-> ports[i].Port]

\* C1: ValidateSuffix(s) returns no error if and only if 0 <= s <= 47435,
\* and a call of it leaves the registry file as it is.
C1_ValidateSuffixRange ==
    /\ [](last.op = "ValidateSuffix" =>
             ((last.err = "nil") <=> (0 <= last.suffix /\ last.suffix <= 47435)))
    /\ [][last'.op = "ValidateSuffix" => file' = file]_vars

C1_Witness ==
    last.op = "ValidateSuffix" /\ last.suffix = 47435 /\ last.err = "nil"

\* C2: for a suffix s in 0..47435 the seven ports probed are 8000+s, 3300+s,
\* 6300+s, 7700+s, 18100+s, 1000+s and 5100+s and all lie in 1000..65535; for
\* a larger s one of them is above 65535.
C2_DerivedPortsInRange ==
    last.op = "CheckSuffixPortsAvailable" =>
        LET s == last.suffix
            ports == PortsOf(last.probed)
        IN  /\ ports = <<8000 + s, 3300 + s, 6300 + s, 7700 + s, 18100 + s, 1000 + s, 5100 + s>>
            /\ (0 <= s /\ s <= 47435) =>
                   \A i \in 1..7 : ports[i] >= 1000 /\ ports[i] <= 65535
            /\ s > 47435 => \E i \in 1..7 : ports[i] > 65535

C2_Witness ==
    last.op = "CheckSuffixPortsAvailable" /\ last.suffix = 47435

\* C3: a load right after a successful save(r) returns, without error and
\* with existed = TRUE, a registry with the MaxSuffix of r and the
\* path-to-suffix mapping of r (the empty mapping for a nil or empty map).
C3_SaveLoadRoundTrip ==
    [][(last.op = "save" /\ last.err = "nil" /\ last'.op = "loadPortState") =>
          /\ last'.err = "nil"
          /\ last'.existed
          /\ last'.state.MaxSuffix = last.state.MaxSuffix
          /\ last'.state.Projects.kv = last.state.Projects.kv]_vars

C3_Witness ==
    /\ last.op = "loadPortState"
    /\ last.afterSave
    /\ last.state.MaxSuffix = 1
    /\ DOMAIN last.state.Projects.kv = {"/a", "/b"}

\* C4: getSuggestedSuffix leaves the registry file as it is (it does not
\* create it either), and a call right after a call for the same project,
\* whose .env is the same, returns the same suffix, isExisting and
\* registryExisted.
C4_SuggestReadOnlyRepeatable ==
    [][last'.op = "getSuggestedSuffix" =>
          /\ file' = file
          /\ last'.again =>
                 /\ last'.suffix = last.suffix
                 /\ last'.existing = last.existing
                 /\ last'.existed = last.existed
                 /\ last'.err = last.err]_vars

C4_Witness ==
    /\ last.op = "getSuggestedSuffix"
    /\ last.again
    /\ file = AbsentFile
    /\ last.suffix = 1 /\ ~last.existing /\ ~last.existed

\* C5: after saveProjectSuffix(p, s) returned no error the persisted
\* high-water mark is >= s, and a getSuggestedSuffix(p) right after returns s
\* with isExisting and registryExisted TRUE, whatever the .env of p holds.
C5_SaveThenSuggest ==
    /\ []((last.op = "saveProjectSuffix" /\ last.err = "nil") =>
              (Loadable(file) /\ file.kind = "json" /\ Registry(file).MaxSuffix >= last.suffix))
    /\ [][(last'.op = "getSuggestedSuffix" /\ last'.afterSave) =>
              /\ last'.err = "nil"
              /\ last'.suffix = last.suffix
              /\ last'.existing
              /\ last'.existed]_vars

C5_Witness ==
    /\ last.op = "getSuggestedSuffix"
    /\ last.afterSave
    /\ last.dir = "/a/."
    /\ last.suffix = 0
    /\ extractSuffixFromEnv(last.env.content).found

\* C6: no call lowers the persisted high-water mark: whenever the registry
\* can be loaded before and after a step, its MaxSuffix after is >= before.
C6_HighWaterMarkMonotonic ==
    [][(Loadable(file) /\ Loadable(file')) =>
          Registry(file').MaxSuffix >= Registry(file).MaxSuffix]_vars

C6_Witness ==
    /\ last.op = "RemoveProject"
    /\ last.err = "nil"
    /\ Loadable(file)
    /\ Registry(file).MaxSuffix = 1
    /\ \A p \in DOMAIN Registry(file).Projects.kv : Registry(file).Projects.kv[p] < 1

\* C7: starting without a registry file, whenever the registry can be loaded
\* its high-water mark is the largest suffix a successful saveProjectSuffix
\* was given (0 if there was none), and no assignment is above it.
C7_HighWaterMarkIsLargestSaved ==
    Loadable(file) =>
        /\ Registry(file).MaxSuffix = (IF maxSaved = NoneSaved THEN 0 ELSE maxSaved)
        /\ \A p \in DOMAIN Registry(file).Projects.kv :
               Registry(file).Projects.kv[p] <= Registry(file).MaxSuffix

C7_Witness ==
    /\ file.kind = "json"
    /\ maxSaved = 1
    /\ DOMAIN file.entries = {"/b"}
    /\ file.entries["/b"] = 0
    /\ last.op = "CleanOrphanedProjects"

\* C8: on a registry that can be loaded, isSuffixInUseByOther(p, s) returns
\* found = TRUE exactly when a key other than the absolute path of p is
\* assigned s, and the path it returns with found = TRUE is such a key.
C8_InUseByOther ==
    (last.op = "isSuffixInUseByOther" /\ Loadable(file)) =>
        LET kv     == Registry(file).Projects.kv
            others == {q \in DOMAIN kv : q # Abs(last.dir) /\ kv[q] = last.suffix}
        IN  /\ last.found <=> others # {}
            /\ last.found => last.path \in others

C8_Witness ==
    /\ last.op = "isSuffixInUseByOther"
    /\ ~last.found
    /\ last.dir = "/a"
    /\ file.kind = "json"
    /\ DOMAIN file.entries = {"/a", "/b"}
    /\ file.entries["/a"] = last.suffix
    /\ file.entries["/b"] # last.suffix

\* C9: a CleanOrphanedProjects that returns no error leaves exactly the
\* assignments whose path exists, each with its suffix, keeps the high-water
\* mark and returns the number of assignments it removed; a second call
\* right after one that removed assignments, with the same paths existing,
\* returns 0 and leaves the file as it is.
C9_CleanRemovesExactlyOrphans ==
    [][(last'.op = "CleanOrphanedProjects" /\ last'.err = "nil") =>
          LET kv  == Registry(file).Projects.kv
              kv2 == Registry(file').Projects.kv
          IN  /\ Loadable(file')
              /\ DOMAIN kv2 = DOMAIN kv \cap last'.exist
              /\ \A p \in DOMAIN kv2 : kv2[p] = kv[p]
              /\ Registry(file').MaxSuffix = Registry(file).MaxSuffix
              /\ last'.n = Cardinality(DOMAIN kv \ last'.exist)
              /\ last'.again => (last'.n = 0 /\ file' = file)]_vars

C9_Witness ==
    /\ last.op = "CleanOrphanedProjects"
    /\ last.err = "nil"
    /\ last.again
    /\ last.n = 0
    /\ last.exist = {"/a"}
    /\ file.kind = "json"
    /\ DOMAIN file.entries = {"/a"}

\* C10: RemoveProject(p) on a registry that can be loaded and has no entry
\* for the absolute path of p returns the error "not registered" and leaves
\* the registry file as it is; an absent file stays absent.
C10_RemoveUnregistered ==
    [][(/\ last'.op = "RemoveProject"
        /\ Loadable(file)
        /\ Abs(last'.dir) \notin DOMAIN Registry(file).Projects.kv) =>
          (last'.err = "not registered" /\ file' = file)]_vars

C10_Witness ==
    /\ last.op = "RemoveProject"
    /\ last.err = "not registered"
    /\ file = AbsentFile

\* C11: RemoveProject(p) on a registry that holds an entry for the absolute
\* path of p does not answer "not registered"; when it returns no error the
\* file it leaves can be loaded and holds every other assignment with its
\* suffix, no entry for the absolute path of p, and the same high-water mark.
C11_RemoveRegistered ==
    [][(/\ last'.op = "RemoveProject"
        /\ Loadable(file)
        /\ Abs(last'.dir) \in DOMAIN Registry(file).Projects.kv) =>
          LET kv  == Registry(file).Projects.kv
              kv2 == Registry(file').Projects.kv
          IN  /\ last'.err \in {"nil", "write"}
              /\ last'.err = "nil" =>
                     /\ file'.kind = "json"
                     /\ DOMAIN kv2 = DOMAIN kv \ {Abs(last'.dir)}
                     /\ \A p \in DOMAIN kv2 : kv2[p] = kv[p]
                     /\ Registry(file').MaxSuffix = Registry(file).MaxSuffix]_vars

C11_Witness ==
    /\ last.op = "RemoveProject"
    /\ last.dir = "/a/."
    /\ last.err = "nil"
    /\ file.kind = "json"
    /\ DOMAIN file.entries = {"/b", "/c"}
    /\ file.max_suffix = 1

\* what the recovery from the .env e is to yield: the value of its APP_PORT
\* line less 8000, when the value is at least 8000
Recovered(e) ==
    IF \E v \in AppPortValues : e \in EnvWithPort(v) /\ v >= 8000
    THEN [found |-> TRUE,
          suffix |-> (CHOOSE v \in AppPortValues : e \in EnvWithPort(v)) - 8000]
    ELSE IF \E vw \in PortPairs : e = EnvTwoPorts(vw[1], vw[2]) /\ (vw[1] >= 8000 \/ vw[2] >= 8000)
    THEN LET vw == CHOOSE vw \in PortPairs : e = EnvTwoPorts(vw[1], vw[2])
         IN  [found |-> TRUE,
              suffix |-> (IF vw[1] >= 8000 THEN vw[1] ELSE vw[2]) - 8000]
    ELSE [found |-> FALSE, suffix |-> 0]

\* C13: a getSuggestedSuffix that returns no error returns the suffix of the
\* registry entry of the project, with isExisting TRUE, whenever there is
\* one, whatever the .env holds; without an entry, the suffix the .env
\* yields, with isExisting TRUE; and with neither, the high-water mark plus
\* one with isExisting FALSE.
C13_SuggestionPriority ==
    (last.op = "getSuggestedSuffix" /\ last.err = "nil") =>
        LET kv     == Registry(file).Projects.kv
            absDir == Abs(last.dir)
            rec    == Recovered(last.env)
        IN  IF absDir \in DOMAIN kv
            THEN last.suffix = kv[absDir] /\ last.existing
            ELSE IF rec.found
            THEN last.suffix = rec.suffix /\ last.existing
            ELSE last.suffix = Registry(file).MaxSuffix + 1 /\ ~last.existing

C13_Witness ==
    /\ last.op = "getSuggestedSuffix"
    /\ last.err = "nil"
    /\ last.dir = "/a"
    /\ last.env \in EnvWithPort(8051)
    /\ file.kind = "json"
    /\ "/a" \in DOMAIN file.entries
    /\ last.suffix = 1
    /\ last.existing

\* C14: for a project without a registry entry whose .env has the line
\* APP_PORT=v, getSuggestedSuffix returns v - 8000 with isExisting TRUE when
\* v >= 8000 (51 for 8051, 0 for 8000), and the high-water mark plus one
\* with isExisting FALSE when v < 8000 (500, 7999).
C14_EnvironmentRecovery ==
    (/\ last.op = "getSuggestedSuffix"
     /\ last.err = "nil"
     /\ Abs(last.dir) \notin DOMAIN Registry(file).Projects.kv) =>
        \A v \in AppPortValues :
            last.env \in EnvWithPort(v) =>
                IF v >= 8000
                THEN last.suffix = v - 8000 /\ last.existing
                ELSE last.suffix = Registry(file).MaxSuffix + 1 /\ ~last.existing

C14_Witness ==
    /\ last.op = "getSuggestedSuffix"
    /\ last.err = "nil"
    /\ last.env = EnvFile(AppPortLine(8051) \o <<"\n">>)
    /\ last.suffix = 51
    /\ last.existing
    /\ file.kind = "json"
    /\ DOMAIN file.entries = {"/b"}

\* C15: loadPortState returns no error and existed = FALSE exactly when the
\* registry file is absent, and then an empty registry (high-water mark 0,
\* no assignments); it returns existed = TRUE and no error for a file that
\* parses; it leaves the file as it is (an absent file stays absent); and
\* starting without a file, a getSuggestedSuffix that returns no error
\* reports registryExisted TRUE exactly when a save has succeeded before.
C15_ExistedOnlyAfterSave ==
    /\ [](last.op = "loadPortState" =>
             /\ (last.err = "nil" /\ ~last.existed) <=> (file = AbsentFile)
             /\ file = AbsentFile =>
                    (last.state.MaxSuffix = 0 /\ ~last.state.Projects.isNil
                        /\ DOMAIN last.state.Projects.kv = {})
             /\ file.kind = "json" => (last.err = "nil" /\ last.existed))
    /\ [][last'.op = "loadPortState" => file' = file]_vars
    /\ []((last.op = "getSuggestedSuffix" /\ last.err = "nil") =>
             (last.existed <=> maxSaved # NoneSaved))

C15_Witness ==
    /\ last.op = "getSuggestedSuffix"
    /\ last.err = "nil"
    /\ ~last.existed
    /\ last.again
    /\ file = AbsentFile

\* C16: on a registry file that exists and cannot be read or parsed,
\* getSuggestedSuffix, saveProjectSuffix, RemoveProject,
\* CleanOrphanedProjects and ListProjects return an error, and no call
\* changes the file.
C16_CorruptNeverOverwritten ==
    [][file.kind = "corrupt" =>
          /\ file' = file
          /\ last'.op \in {"getSuggestedSuffix", "saveProjectSuffix", "RemoveProject",
                           "CleanOrphanedProjects", "ListProjects"} =>
                 last'.err = "read"]_vars

C16_Witness ==
    /\ file = CorruptFile
    /\ last.op = "saveProjectSuffix"
    /\ last.err = "read"

\* C17: a ListProjects that returns no error returns one entry per registry
\* assignment, with its path and suffix, the Exists flag of an entry is TRUE
\* exactly when its path is an existing directory, and the registry file is
\* left as it is.
C17_ListMatchesRegistry ==
    /\ []((last.op = "ListProjects" /\ last.err = "nil") =>
             LET kv == Registry(file).Projects.kv
                 ps == last.projects
             IN  /\ Len(ps) = Cardinality(DOMAIN kv)
                 /\ {ps[i].Path : i \in DOMAIN ps} = DOMAIN kv
                 /\ \A i \in DOMAIN ps :
                        /\ ps[i].Suffix = kv[ps[i].Path]
                        /\ ps[i].Exists <=> (last.stat[ps[i].Path] = "dir"))
    /\ [][last'.op = "ListProjects" => file' = file]_vars

\* the roles in the order of their definition, each with its base port
RoleBases ==
    << <<"APP_PORT", 8000>>, <<"FORWARD_DB_PORT", 3300>>, <<"FORWARD_REDIS_PORT", 6300>>,
       <<"FORWARD_MEILISEARCH_PORT", 7700>>, <<"FORWARD_MAILPIT_DASHBOARD_PORT", 18100>>,
       <<"FORWARD_MAILPIT_PORT", 1000>>, <<"VITE_PORT", 5100>> >>

\* C19: CheckSuffixPortsAvailable(s) returns, in the order APP, DB, REDIS,
\* MEILISEARCH, MAILPIT_DASHBOARD, MAILPIT, VITE, the role and the port
\* base + s of exactly the derived ports that cannot be bound when probed
\* (held by someone, or no TCP port), and the empty list when all seven can.
C19_BusyPortsInRoleOrder ==
    last.op = "CheckSuffixPortsAvailable" =>
        LET derived == [i \in 1..7 |-> [Name |-> RoleBases[i][1],
                                        Port |-> RoleBases[i][2] + last.suffix]]
            Unbindable(e) == e.Port \in last.inUse \/ e.Port < 0 \/ e.Port > 65535
        IN  last.busy = SelectSeq(derived, Unbindable)

C19_Witness ==
    /\ last.op = "CheckSuffixPortsAvailable"
    /\ last.suffix = 1
    /\ last.busy = << [Name |-> "FORWARD_DB_PORT", Port |-> 3301],
                      [Name |-> "VITE_PORT", Port |-> 5101] >>

\* C12: for a project without a registry entry whose .env is missing or
\* holds APP_PORT=500, a getSuggestedSuffix that returns no error returns
\* the high-water mark plus one with isExisting FALSE, and registryExisted
\* tells whether the file is there: (1, FALSE, FALSE) without a registry
\* file; and on the registry saveProjectSuffix(/a, 48) leaves, (49, FALSE,
\* TRUE) for /b and (48, TRUE, TRUE) for /a.
C12_NewProjectGetsNextSuffix ==
    (last.op = "getSuggestedSuffix" /\ last.err = "nil") =>
        LET unrecoverable == last.env \in {NoEnv, EnvFile(AppPortLine(500) \o <<"\n">>)}
            after48       == file = JsonFile(TRUE, 48, "object", [p \in {"/a"} |-> 48])
            result        == <<last.suffix, last.existing, last.existed>>
        IN  /\ (unrecoverable /\ Abs(last.dir) \notin DOMAIN Registry(file).Projects.kv) =>
                   result = <<Registry(file).MaxSuffix + 1, FALSE, file.kind = "json">>
            /\ (unrecoverable /\ file = AbsentFile) => result = <<1, FALSE, FALSE>>
            /\ (unrecoverable /\ after48 /\ last.dir = "/b") => result = <<49, FALSE, TRUE>>
            /\ (after48 /\ last.dir = "/a") => result = <<48, TRUE, TRUE>>

C12_Witness ==
    /\ last.op = "getSuggestedSuffix"
    /\ last.dir = "/b"
    /\ last.env = NoEnv
    /\ file = JsonFile(TRUE, 48, "object", [p \in {"/a"} |-> 48])
    /\ last.suffix = 49 /\ ~last.existing /\ last.existed

\* C18: starting without a registry file, with setup flows run one at a
\* time and --remove and --clean between them, no two different paths of a
\* registry that can be loaded hold the same suffix.
C18_SuffixesUnique ==
    Loadable(file) =>
        LET kv == Registry(file).Projects.kv
        IN  \A p \in DOMAIN kv, q \in DOMAIN kv : p # q => kv[p] # kv[q]

C18_Witness ==
    /\ flow.pc = "confirm"
    /\ flow.dir = "/b"
    /\ last.op = "isSuffixInUseByOther"
    /\ last.found
    /\ last.path = "/a"
    /\ last.suffix = 48
    /\ file.kind = "json"
    /\ DOMAIN file.entries = {"/a", "/b"}

LacksMember(f) == f.kind = "json" /\ (~f.has_max \/ f.projects = "missing")

WrittenOut(f) ==
    JsonFile(TRUE, IF f.has_max THEN f.max_suffix ELSE 0, "object",
             IF f.projects = "object" THEN f.entries ELSE EmptyKV)

\* C25: a registry file without max_suffix loads with high-water mark 0,
\* one without projects loads with an empty mapping, neither with an error;
\* and getSuggestedSuffix, saveProjectSuffix, ListProjects and
\* RemoveProject called on such a file return what they return on the file
\* with the member written out, and leave the file they leave there.
C25_MissingMembersAreEmpty ==
    [][LacksMember(file) =>
          LET g == WrittenOut(file)
          IN  /\ last'.op = "loadPortState" =>
                     /\ last'.err = "nil"
                     /\ last'.state.MaxSuffix = (IF file.has_max THEN file.max_suffix ELSE 0)
                     /\ last'.state.Projects =
                            MakeMap(IF file.projects = "object" THEN file.entries
                                                               ELSE EmptyKV)
              /\ last'.op = "getSuggestedSuffix" =>
                     LET x == getSuggestedSuffix(g, last'.env, last'.dir)
                     IN  /\ last'.err = "nil"
                         /\ last'.suffix = x.suffix
                         /\ last'.existing = x.existing
                         /\ file' = file
              /\ last'.op = "saveProjectSuffix" =>
                     /\ last'.err \in {"nil", "write"}
                     /\ last'.err = "nil" =>
                            file' = saveProjectSuffix(g, last'.dir, last'.suffix, "ok").file
              /\ last'.op = "ListProjects" =>
                     /\ last'.err = "nil"
                     /\ \E x \in ListProjects(g, last'.stat) :
                            last'.projects = x.projects
              /\ last'.op = "RemoveProject" =>
                     /\ \E wr \in WriteOutcomes :
                            last'.err = RemoveProject(g, last'.dir, wr).err
                     /\ last'.err = "nil" =>
                            file' = RemoveProject(g, last'.dir, "ok").file]_vars

C25_Witness ==
    /\ file = JsonFile(TRUE, 1, "missing", EmptyKV)
    /\ last.op = "loadPortState"
    /\ last.err = "nil"
    /\ last.state = PortState(1, MakeMap(EmptyKV))

\* C28 as it reads: for a project without a registry entry whose .env holds
\* the lines APP_PORT=v and APP_PORT=w in this order, the first line alone
\* decides: v - 8000 with isExisting TRUE when v >= 8000, and the
\* high-water mark plus one with isExisting FALSE when v < 8000, whatever
\* w is.
C28_FirstKeyLineDecides ==
    (/\ last.op = "getSuggestedSuffix"
     /\ last.err = "nil"
     /\ Abs(last.dir) \notin DOMAIN Registry(file).Projects.kv) =>
        \A vw \in PortPairs :
            last.env = EnvTwoPorts(vw[1], vw[2]) =>
                IF vw[1] >= 8000
                THEN last.suffix = vw[1] - 8000 /\ last.existing
                ELSE last.suffix = Registry(file).MaxSuffix + 1 /\ ~last.existing

\* C28, amended: for a project without a registry entry whose .env holds
\* the lines APP_PORT=v and APP_PORT=w in this order, the first of the two
\* values that is at least 8000 decides: v - 8000 when v >= 8000, else
\* w - 8000 when w >= 8000, each with isExisting TRUE; the high-water mark
\* plus one with isExisting FALSE only when both are below 8000.
C28_FirstUsableLineDecides ==
    (/\ last.op = "getSuggestedSuffix"
     /\ last.err = "nil"
     /\ Abs(last.dir) \notin DOMAIN Registry(file).Projects.kv) =>
        \A vw \in PortPairs :
            last.env = EnvTwoPorts(vw[1], vw[2]) =>
                IF vw[1] >= 8000
                THEN last.suffix = vw[1] - 8000 /\ last.existing
                ELSE IF vw[2] >= 8000
                THEN last.suffix = vw[2] - 8000 /\ last.existing
                ELSE last.suffix = Registry(file).MaxSuffix + 1 /\ ~last.existing

C28_Witness ==
    /\ last.op = "getSuggestedSuffix"
    /\ last.err = "nil"
    /\ last.env = EnvTwoPorts(500, 8051)
    /\ last.suffix = 51
    /\ last.existing
    /\ file.kind = "json"
    /\ Abs(last.dir) \notin DOMAIN file.entries

\* C30: isSuffixInUseByOther called on a registry file that cannot be read
\* or parsed never answers that no other project holds the suffix.
C30_ReadFailureIsNoClearance ==
    (last.op = "isSuffixInUseByOther" /\ ~Loadable(file)) => last.found

\* a line that, blanks at its ends aside, starts with key and "="
SetsKey(line, key) == HasPrefix(TrimSpace(line), key \o <<"=">>)

PortOrDebugLine(line) ==
    \/ \E i \in 1..7 : SetsKey(line, PortKeys[i].key)
    \/ SetsKey(line, XdebugKey)

\* the lines setupEnv starts from: those of the .env, or of what a missing
\* .env is created from
GivenLines(call) ==
    splitLines(IF call.env.present THEN call.env.content
               ELSE IF call.example.present THEN call.example.content
               ELSE <<>>)

\* lines without the blank lines at their end
UpToLastText(lines) ==
    LET m == CHOOSE i \in 0..Len(lines) :
                 /\ i = 0 \/ TrimSpace(lines[i]) # <<>>
                 /\ \A j \in (i + 1)..Len(lines) : TrimSpace(lines[j]) = <<>>
    IN  SubSeq(lines, 1, m)

\* C23: after a setupEnv(dir, s, _) that returns no error the .env ends
\* with: an empty line (the only blank line before the block), the seven
\* port lines in the order APP_PORT, FORWARD_DB_PORT, FORWARD_REDIS_PORT,
\* FORWARD_MEILISEARCH_PORT, FORWARD_MAILPIT_DASHBOARD_PORT,
\* FORWARD_MAILPIT_PORT, VITE_PORT, each key=<base + s> in decimal, an empty
\* line, and SAIL_XDEBUG_MODE=develop,debug,coverage as the last line; and
\* no line before this block sets one of the seven keys.
C23_PortBlockLayout ==
    (last.op = "setupEnv" /\ last.err = "nil") =>
        LET ls == splitLines(last.out.content)
            n  == Len(ls)
        IN  /\ last.out.present
            /\ last.out.content[Len(last.out.content)] = "\n"
            /\ n >= 10
            /\ ls[n] = XdebugLine
            /\ ls[n - 1] = <<>>
            /\ \A i \in 1..7 :
                   LET line  == ls[n - 9 + i]
                       key   == PortKeys[i].key \o <<"=">>
                       value == SubSeq(line, Len(key) + 1, Len(line))
                   IN  /\ HasPrefix(line, key)
                       /\ value # <<>>
                       /\ DigitRun(value) = value
                       /\ DecimalValue(value, 0) = RoleBases[i][2] + last.suffix
            /\ ls[n - 9] = <<>>
            /\ n > 10 => TrimSpace(ls[n - 10]) # <<>>
            /\ \A j \in 1..(n - 10) : \A i \in 1..7 : ~SetsKey(ls[j], PortKeys[i].key)

C23_Witness ==
    /\ last.op = "setupEnv"
    /\ last.err = "nil"
    /\ last.env.present
    /\ last.suffix = MaxPortSuffix
    /\ \E j \in DOMAIN GivenLines(last) :
           /\ PortOrDebugLine(GivenLines(last)[j])
           /\ Head(GivenLines(last)[j]) = " "

\* C24 as it reads: after a setupEnv that returns no error, when the .env
\* was just created or resetDb is TRUE every line that sets one of the six
\* DB_ keys is the Sail default of the key, and each key has such a line;
\* when the .env existed and resetDb is FALSE the lines before the port
\* block are the lines of the .env that set no port key and no
\* SAIL_XDEBUG_MODE, each as it was and in the same order.
C24_OtherLinesVerbatim ==
    (last.op = "setupEnv" /\ last.err = "nil") =>
        LET ls       == splitLines(last.out.content)
            body     == SubSeq(ls, 1, Len(ls) - 10)
            KeptLine(line) == ~PortOrDebugLine(line)
        IN  IF ~last.env.present \/ last.resetDb
            THEN /\ \A k \in CoreKeys : \E j \in DOMAIN body : body[j] = CoreLine(k)
                 /\ \A j \in DOMAIN body : \A k \in CoreKeys :
                        SetsKey(body[j], CoreKeyText(k)) => body[j] = CoreLine(k)
            ELSE body = SelectSeq(GivenLines(last), KeptLine)

\* C24, amended: as above, except that when the .env existed and resetDb is
\* FALSE the blank lines that end up last among the lines kept are dropped
\* (the layout puts its one empty line there); every other kept line is as
\* it was and in the same order.
C24_OtherLinesVerbatimButBlankTail ==
    (last.op = "setupEnv" /\ last.err = "nil") =>
        LET ls       == splitLines(last.out.content)
            body     == SubSeq(ls, 1, Len(ls) - 10)
            KeptLine(line) == ~PortOrDebugLine(line)
        IN  IF ~last.env.present \/ last.resetDb
            THEN /\ \A k \in CoreKeys : \E j \in DOMAIN body : body[j] = CoreLine(k)
                 /\ \A j \in DOMAIN body : \A k \in CoreKeys :
                        SetsKey(body[j], CoreKeyText(k)) => body[j] = CoreLine(k)
            ELSE body = UpToLastText(SelectSeq(GivenLines(last), KeptLine))

C24_Witness ==
    /\ last.op = "setupEnv"
    /\ last.err = "nil"
    /\ last.env.present
    /\ ~last.resetDb
    /\ LET KeptLine(line) == ~PortOrDebugLine(line)
           kept == SelectSeq(GivenLines(last), KeptLine)
       IN  /\ Len(kept) > 1
           /\ TrimSpace(kept[Len(kept)]) = <<>>
           /\ \E j \in DOMAIN kept : \E k \in CoreKeys : SetsKey(kept[j], CoreKeyText(k))

\* C21: in a setup flow started with --dry-run no step changes the registry
\* file (none is created), and no step calls saveProjectSuffix, setupEnv
\* (the one writer of the .env), runSailInit or runSailUp, whatever the
\* user enters.
C21_DryRunChangesNothing ==
    [][(flow.dryRun \/ flow'.dryRun) =>
          /\ file' = file
          /\ maxSaved' = maxSaved
          /\ last'.op \notin {"saveProjectSuffix", "setupEnv", "runSailInit",
                              "runSailUp"}]_vars

C21_Witness ==
    /\ flow.dryRun
    /\ flow.pc = "up"
    /\ flow.suffix = DefaultSuffix + 1
    /\ flow.answer = <<>>
    /\ file = AbsentFile

\* C26: runSailInit runs the Docker composer install exactly when
\* forceInstall is TRUE or os.Stat does not find vendor/bin/sail; when it
\* does not run it, it returns no error.
C26_InstallUnlessSailFound ==
    last.op = "runSailInit" =>
        /\ last.ran <=> (last.forceInstall \/ last.stat # "found")
        /\ ~last.ran => last.err = "nil"

C26_Witness ==
    /\ last.op = "runSailInit"
    /\ last.forceInstall
    /\ last.stat = "found"
    /\ last.ran

\* C27: every suffix the setup flow passes to saveProjectSuffix passes
\* ValidateSuffix, so lies in 0..47435, whether it was typed or was a
\* default accepted with Enter.
C27_SavedSuffixInRange ==
    (last.op = "saveProjectSuffix" \/ flow.pc \in {"probe", "save"}) =>
        LET suffix == IF last.op = "saveProjectSuffix" THEN last.suffix ELSE flow.suffix
        IN  /\ ValidateSuffix(suffix) = "nil"
            /\ suffix \in 0..47435

\* C29: when the saveProjectSuffix of a setup flow has returned an error,
\* the flow calls neither setupEnv nor runSailInit nor runSailUp.
C29_FailedSaveAborts ==
    flow.saved \notin {"none", "nil"} =>
        last.op \notin {"setupEnv", "runSailInit", "runSailUp"}

\* C35: a CleanOrphanedProjects that finds no assignment whose path is gone
\* (an absent or empty registry included) returns 0 without an error and
\* leaves the registry file as it is: not rewritten, not created; the file
\* changes only in a call that found at least one such assignment.
C35_CleanWritesOnlyOnRemoval ==
    [][last'.op = "CleanOrphanedProjects" =>
          LET orphans == DOMAIN Registry(file).Projects.kv \ last'.exist
          IN  /\ (Loadable(file) /\ orphans = {}) =>
                     (last'.n = 0 /\ last'.err = "nil" /\ file' = file)
              /\ file' # file => (Loadable(file) /\ orphans # {})]_vars

C35_Witness ==
    /\ last.op = "CleanOrphanedProjects"
    /\ last.exist = {}
    /\ last.n = 0
    /\ last.err = "nil"
    /\ file = AbsentFile

\* C32: after a save has returned, the registry file holds either the whole
\* registry passed to save (no error: a load succeeds and returns it) or
\* exactly what it held before the call (error).
C32_SaveAllOrNothing ==
    [][last'.op = "save" =>
          IF last'.err = "nil"
          THEN /\ Loadable(file')
               /\ Registry(file').MaxSuffix = last'.state.MaxSuffix
               /\ Registry(file').Projects.kv = last'.state.Projects.kv
          ELSE file' = file]_vars

\* C39: a registry file written by the program's own save loads without an
\* error, and a saveProjectSuffix on it ends normally: with no error and
\* the assignment in the file, or with the error of its write.
C39_OwnFilesLoadAndTakeAssignments ==
    [][file.kind = "json" =>
          /\ last'.op = "loadPortState" => last'.err = "nil"
          /\ last'.op = "saveProjectSuffix" =>
                 /\ last'.err \in {"nil", "write"}
                 /\ last'.err = "nil" =>
                        LET kv == Registry(file').Projects.kv
                        IN  /\ Abs(last'.dir) \in DOMAIN kv
                            /\ kv[Abs(last'.dir)] = last'.suffix]_vars

\* C34: CheckPortAvailable(port) returns TRUE exactly when the port is a TCP
\* port nobody holds at the time of the probe, and after the call, as after
\* the seven probes of CheckSuffixPortsAvailable, the tool holds no port it
\* did not hold before.
C34_ProbeReleasesPorts ==
    /\ last.op = "CheckPortAvailable" =>
           /\ last.ok <=> (last.port \in 0..65535 /\ last.port \notin last.inUse)
           /\ last.held = {}
    /\ last.op = "CheckSuffixPortsAvailable" => last.held = {}

C34_Witness ==
    /\ last.op = "CheckPortAvailable"
    /\ last.port = 65535
    /\ last.inUse = {8000}
    /\ last.ok
    /\ last.held = {}

\* C37: on a registry whose high-water mark and assignments all lie in
\* 0..47435, a getSuggestedSuffix that returns no error returns a suffix in
\* 0..47435.
C37_SuggestionInRange ==
    (/\ last.op = "getSuggestedSuffix"
     /\ last.err = "nil"
     /\ Registry(file).MaxSuffix \in 0..MaxPortSuffix
     /\ \A p \in DOMAIN Registry(file).Projects.kv :
            Registry(file).Projects.kv[p] \in 0..MaxPortSuffix) =>
        last.suffix \in 0..MaxPortSuffix

\* C38: the suffix the confirmation prompt offers as default is held by no
\* other project, so an empty answer is never turned back by the collision
\* scan.
C38_DefaultNeverCollides ==
    (flow.pc = "confirm" /\ flow.suffix = flow.suggested) =>
        LET kv == Registry(file).Projects.kv
        IN  \A q \in DOMAIN kv \ {Abs(flow.dir)} : kv[q] # flow.suggested

\* C33: the port probe never blocks the flow by itself.  The probe step leaves
\* the registry file as it is; with no busy port, or with busy ports and the
\* answer to go on, the flow stands before the save with the confirmed suffix,
\* and from there it reaches the step after the save; with busy ports and any
\* other answer the process ends with nothing saved and no .env written.
C33_ProbeNeverBlocks ==
    /\ [][flow.pc = "probe" =>
            /\ last'.op = "CheckSuffixPortsAvailable"
            /\ file' = file
            /\ IF last'.asked /\ ~last'.yes
               THEN flow' = IdleFlow
               ELSE /\ flow'.pc = "save"
                    /\ flow'.suffix = flow.suffix
                    /\ flow'.dir = flow.dir]_vars
    /\ [][(flow.pc = "save" /\ ~flow.dryRun) =>
            /\ last'.op = "saveProjectSuffix"
            /\ last'.suffix = flow.suffix
            /\ last'.dir = flow.dir]_vars
    /\ (flow.pc = "probe") ~> (flow.pc \in {"save", "idle"})
    /\ (flow.pc = "save") ~> (flow.pc = "env")

C33_Witness ==
    /\ last.op = "CheckSuffixPortsAvailable"
    /\ last.busy # <<>>
    /\ last.yes
    /\ flow.pc = "save"
    /\ ~flow.dryRun
    /\ file = AbsentFile

\* the registry file after project d, registered with suffix s next to
\* another project, was removed with --remove
FileAfterRemoval(d, s) ==
    LET other == CHOOSE q \in WorkDirs : q # d
        before == Marshal(PortState(s, MakeMap((d :> s) @@ (other :> 0))))
    IN  RemoveProject(before, d, "ok").file

\* C40: after a setupEnv for suffix s that returned no error, whatever the
\* .env held before, extractSuffixFromEnv on the written .env returns
\* (s, true); so getSuggestedSuffix for a project without a registry entry
\* (no registry file, or its entry removed) returns s as existing.
C40_WrittenEnvYieldsSuffix ==
    (last.op = "setupEnv" /\ last.err = "nil") =>
        /\ extractSuffixFromEnv(last.out.content) =
               [suffix |-> last.suffix, found |-> TRUE]
        /\ \A d \in WorkDirs :
               \A f \in {AbsentFile, FileAfterRemoval(d, last.suffix)} :
                   LET r == getSuggestedSuffix(f, last.out, d)
                   IN  /\ r.err = "nil"
                       /\ r.suffix = last.suffix
                       /\ r.existing

C40_Witness ==
    /\ last.op = "setupEnv"
    /\ last.err = "nil"
    /\ last.suffix = 0
    /\ last.env.present
    /\ extractSuffixFromEnv(last.env.content).found
    /\ extractSuffixFromEnv(last.env.content).suffix = 9
    /\ "/a" \notin DOMAIN Registry(FileAfterRemoval("/a", 0)).Projects.kv

\* the entries the registry file f has after saveProjectSuffix(dir, suffix)
\* wrote it from the registry read from the file seen
WrittenFrom(seen, dir, suffix) ==
    LET kv == Registry(seen).Projects.kv
    IN  [q \in DOMAIN kv \cup {Abs(dir)} |-> IF q = Abs(dir) THEN suffix ELSE kv[q]]

\* C31: the file that a save leaves is the registry its process read, with
\* the assignment of that process, whatever other processes saved since the
\* read; so when two processes interleave there are runs in which both saves
\* returned no error and the file lacks the assignment of one of them.
C31_LastWriterWins ==
    [][\A p \in RaceProcs :
          (flow[p].pc = "writing" /\ flow'[p].pc = "done" /\ Loadable(file')) =>
              /\ flow'[p].err = "nil"
              /\ Registry(file').Projects.kv =
                     WrittenFrom(flow[p].seen, flow[p].dir, flow[p].suffix)]_vars

C31_Witness ==
    /\ \A p \in RaceProcs : flow[p].pc = "done" /\ flow[p].err = "nil"
    /\ last.op = "saveProjectSuffix"
    /\ last.proc = 2
    /\ ~flow[2].over
    /\ Loadable(file)
    /\ DOMAIN Registry(file).Projects.kv = {"/b"}
    /\ Registry(flow[2].seen).Projects.kv = EmptyKV

\* C36 as claimed: with the steps of two setup flows interleaved, no two
\* paths in the registry file hold the same suffix.
C36_UniqueUnderInterleaving ==
    file.kind = "json" =>
        \A x \in DOMAIN file.entries, y \in DOMAIN file.entries :
            x # y => file.entries[x] # file.entries[y]

\* the registry read from file f holds no suffix twice
UniqueIn(f) ==
    LET kv == Registry(f).Projects.kv
    IN  \A x \in DOMAIN kv, y \in DOMAIN kv : x # y => kv[x] # kv[y]

\* C36: a save of a setup flow that no other process's write overtook
\* between the collision check of the flow and the end of its save leaves a
\* registry without a repeated suffix if the registry it read had none.
C36_UniqueUnlessOvertaken ==
    [][\A p \in RaceProcs :
          (/\ flow[p].pc = "writing"
           /\ flow'[p].pc = "done"
           /\ ~flow[p].raced
           /\ UniqueIn(flow[p].seen)) =>
              /\ Loadable(file')
              /\ UniqueIn(file')
              /\ Registry(file').Projects.kv[flow[p].dir] = flow[p].suffix]_vars

C36_Witness ==
    /\ last.op = "saveProjectSuffix"
    /\ last.err = "nil"
    /\ last.proc = 2
    /\ ~flow[2].raced
    /\ flow[2].pc = "done"
    /\ flow[1].pc = "done"
    /\ flow[1].err = "nil"
    /\ Loadable(file)
    /\ DOMAIN Registry(file).Projects.kv = {"/a", "/b"}
    /\ UniqueIn(file)

====
